---- MODULE Spec2Model ----
(***************************************************************************)
(* Security gateway of deset: the whitelisted subprocess runner            *)
(* (execSecure, execWithRetry, execBatch), the SSRF-safe HTTP client       *)
(* (SecureHttpClient.request) and the sliding-window RateLimiter.          *)
(* JavaScript strings are sequences of one-character strings, so that      *)
(* trim(), toLowerCase() and includes() are computed, not assumed.  The     *)
(* grave accent character is written "backtick".                           *)
(***************************************************************************)
EXTENDS Integers, Sequences, FiniteSets, TLC

VARIABLES
  execPc,          \* "idle" | "spawned" | "threw": position of the execSecure call
  callCommand,     \* the command argument of the call
  callArgs,        \* the args argument of the call
  timeout,         \* secureOptions.timeout
  promiseState,    \* "none" | "pending" | "resolved" | "rejected"
  promiseError,    \* message of the rejection, <<>> if none
  promiseValue,    \* {stdout, stderr, exitCode} sizes of the resolution
  spawned,         \* sequence of the spawn() calls made: [command, args]
  childState,      \* "none" | "failed" | "running" | "exited" | "closed"
  childKilled,     \* child.killed: a signal was successfully sent by child.kill()
  childIgnoresTerm,\* the process does not die of SIGTERM
  exitCode,        \* exit code reported by the close event
  exitSignal,      \* signal reported by the close event, <<>> if it exited by itself
  signalsSent,     \* signals passed to child.kill(), in order
  timeoutId,       \* the timeout timer: [state, at]
  killTimer,       \* the nested force-kill timer: [state, at]
  stdoutLen,       \* stdout.length
  stderrLen,       \* stderr.length
  outputSize,      \* outputSize
  timedOut,        \* timedOut
  chunks,          \* number of 'data' events delivered so far
  now              \* the clock, in ms

execVars ==
  <<execPc, callCommand, callArgs, timeout, promiseState, promiseError, promiseValue,
    spawned, childState, childKilled, childIgnoresTerm, exitCode, exitSignal, signalsSent,
    timeoutId, killTimer, stdoutLen, stderrLen, outputSize, timedOut, chunks, now>>

VARIABLES
  retryPc,         \* "idle" | "calling" | "sleeping" | "returned" | "threw"
  maxRetries,      \* the maxRetries argument
  baseDelay,       \* the baseDelay argument
  attempt,         \* the loop variable
  lastError,       \* lastError: [defined, message]
  retryThrown,     \* what execWithRetry threw: [defined, message]
  outcomes,        \* outcome of every invocation of commandFn so far, in order
  delays           \* every backoff delay waited for so far, in order

retryVars == <<retryPc, maxRetries, baseDelay, attempt, lastError, retryThrown, outcomes, delays>>

VARIABLES
  batchPc,         \* "idle" | "loop" | "awaitRace" | "allSettled" | "resolved" | "rejected"
  batchCount,      \* commands.length
  maxConcurrency,  \* the maxConcurrency argument
  nextIndex,       \* index of the next command the for loop will start
  cmdStatus,       \* per command, the state of its promise: "notStarted" | "pending" | "fulfilled" | "rejected"
  executing,       \* the executing array (command indices)
  results,         \* the results array (command indices)
  raceState,       \* state of the awaited Promise.race: "none" | "pending" | "fulfilled" | "rejected"
  batchResult      \* what execBatch resolved with: one outcome per entry of results

batchVars ==
  <<batchPc, batchCount, maxConcurrency, nextIndex, cmdStatus, executing, results, raceState,
    batchResult>>

VARIABLES
  client,          \* the SecureHttpClient: [built, timeout, maxRetries, maxResponseSize]
  limiter,         \* its RateLimiter: [maxRequests, windowMs]
  requests,        \* RateLimiter.requests: identifier -> timestamps (<<>> for an absent key)
  httpPc,          \* "idle" | "fetching" | "readingBody" | "readingError" | "backoff" | "returned" | "threw"
  reqUrl,          \* the url argument of the current request() call
  callStart,       \* time at which the current call was made
  requestsAtCall,  \* RateLimiter.requests as it was when the current call was made
  slotTaken,       \* isAllowed returned true for the current call
  httpAttempt,     \* the loop variable attempt
  attempts,        \* the fetch attempts of the current call: [start, end, kind]
  abortTimer,      \* timeoutId of the current attempt: [state, at]
  response,        \* the response being handled: [status, contentLength, hasBody]
  totalSize,       \* bytes of the current response body read so far
  bodyChunks,      \* number of body chunks read so far
  readerLocked,    \* a body reader is held and not yet released
  wakeAt,          \* end of the current backoff delay
  httpThrown,      \* what request() threw: [name, message]
  httpReturned,    \* what request() returned: [status, bodySize, rebuilt]
  httpCalls,       \* number of request() calls made so far
  httpNow          \* the clock, in ms

httpVars ==
  <<client, limiter, requests, httpPc, reqUrl, callStart, requestsAtCall, slotTaken,
    httpAttempt, attempts, abortTimer, response, totalSize, bodyChunks, readerLocked, wakeAt,
    httpThrown, httpReturned, httpCalls, httpNow>>

VARIABLES
  callOptions,     \* the options argument of request(): [hasHeaders, headers]
  sentHeaders,     \* requestOptions.headers as handed to fetch()
  headerCalls      \* number of requestOptions objects built so far

headerVars == <<callOptions, sentHeaders, headerCalls>>

VARIABLES
  rl,              \* a RateLimiter: [built, maxRequests, windowMs]
  rlRequests,      \* its requests map: identifier -> timestamps (<<>> for an absent key)
  rlBefore,        \* the requests map as it was before the latest isAllowed call
  rlLog,           \* the isAllowed calls made so far: [id, time, allowed]
  rlNow            \* Date.now()

limiterVars == <<rl, rlRequests, rlBefore, rlLog, rlNow>>

VARIABLES
  keyFile,         \* the bytes of the file at keyPath, NoKey when there is no file
  encryptionKey,   \* this.encryptionKey, NoKey for null
  callers,         \* the calls in progress: caller -> [pc, op, value, encryptedData, generated]
  produced,        \* what the encrypt calls returned so far: {[plaintext, blob, key]}
  lastDecrypt,     \* the latest decrypt call: [called, blob, key, outcome]
  keyLog,          \* what happened to the key: <<[event, key, fileExisted, hadKey]>>
  cryptoCalls      \* number of encryptValue and decryptValue calls made so far

cryptoVars == <<keyFile, encryptionKey, callers, produced, lastDecrypt, keyLog, cryptoCalls>>

VARIABLES
  configFile,      \* the parsed content of the file at configPath, NoFile when there is none
  keyBackup,       \* the bytes of the file at keyPath + '.old', NoKey when there is none
  lastStored,      \* the latest storeSecureConfig call: [called, config, after]
  lastLoad,        \* the latest loadSecureConfig call: [called, outcome]
  rotation,        \* the rotateKey call in progress or finished: [pc, config, oldKey]
  rotateLog,       \* the steps rotateKey has taken, in order
  configCalls      \* number of storeSecureConfig / loadSecureConfig / rotateKey calls so far

configVars == <<configFile, keyBackup, lastStored, lastLoad, rotation, rotateLog, configCalls>>

VARIABLES
  integrityFile,   \* the parsed content of the file that storeWithIntegrity writes: [exists, props]
  written,         \* the latest storeWithIntegrity call: [called, config]
  edited,          \* what was done to the file since it was written: "none", "changed", ...
  lastVerify,      \* the latest verifyIntegrity call: [called, written, edited, result]
  integrityCalls   \* number of storeWithIntegrity and verifyIntegrity calls and edits so far

integrityVars == <<integrityFile, written, edited, lastVerify, integrityCalls>>

VARIABLES
  knownVulnerabilities,  \* this.knownVulnerabilities: package name -> issues
  events,                \* securityLogger.events
  lastResult,            \* the latest verifyPackage call: [returned, path, safe, issues, eventsBefore]
  pkgCalls               \* number of verifyPackage and addKnownVulnerability calls so far

pkgVars == <<knownVulnerabilities, events, lastResult, pkgCalls>>

VARIABLES
  lastSanitize        \* the latest sanitizer call: [fn, input, args, outcome]

namesVars == <<lastSanitize>>

VARIABLES
  slotRequests,    \* RateLimiter.requests of the client: hostname -> timestamps
  inFlight,        \* the request() calls in progress: caller -> [pc, host, admittedAt, attempt, wakeAt]
  fetchLog,        \* every fetch() so far: {[host, at, caller, admittedAt, n]}
  slotCalls,       \* number of request() calls made so far
  slotNow          \* the clock, in ms

slotsVars == <<slotRequests, inFlight, fetchLog, slotCalls, slotNow>>

\* What each component's actions leave alone: the state of the other components.
execFrame == <<retryVars, batchVars, httpVars, headerVars, limiterVars, cryptoVars, configVars, integrityVars, pkgVars, namesVars, slotsVars>>

retryFrame == <<execVars, batchVars, httpVars, headerVars, limiterVars, cryptoVars, configVars, integrityVars, pkgVars, namesVars, slotsVars>>

batchFrame == <<execVars, retryVars, httpVars, headerVars, limiterVars, cryptoVars, configVars, integrityVars, pkgVars, namesVars, slotsVars>>

httpFrame == <<execVars, retryVars, batchVars, headerVars, limiterVars, cryptoVars, configVars, integrityVars, pkgVars, namesVars, slotsVars>>

headersFrame == <<execVars, retryVars, batchVars, httpVars, limiterVars, cryptoVars, configVars, integrityVars, pkgVars, namesVars, slotsVars>>

limiterFrame == <<execVars, retryVars, batchVars, httpVars, headerVars, cryptoVars, configVars, integrityVars, pkgVars, namesVars, slotsVars>>

cryptoFrame == <<execVars, retryVars, batchVars, httpVars, headerVars, limiterVars, configVars, integrityVars, pkgVars, namesVars, slotsVars>>

configFrame == <<execVars, retryVars, batchVars, httpVars, headerVars, limiterVars, integrityVars, pkgVars, namesVars, slotsVars>>

integrityFrame == <<execVars, retryVars, batchVars, httpVars, headerVars, limiterVars, cryptoVars, configVars, pkgVars, namesVars, slotsVars>>

pkgFrame == <<execVars, retryVars, batchVars, httpVars, headerVars, limiterVars, cryptoVars, configVars, integrityVars, namesVars, slotsVars>>

namesFrame == <<execVars, retryVars, batchVars, httpVars, headerVars, limiterVars, cryptoVars, configVars, integrityVars, pkgVars, slotsVars>>

slotsFrame == <<execVars, retryVars, batchVars, httpVars, headerVars, limiterVars, cryptoVars, configVars, integrityVars, pkgVars, namesVars>>

vars == <<execVars, retryVars, batchVars, httpVars, headerVars, limiterVars, cryptoVars, configVars, integrityVars, pkgVars, namesVars, slotsVars>>

(***************************************************************************)
(* String helpers (String.prototype.trim / toLowerCase / includes)         *)
(***************************************************************************)
UpperChars == <<"A","B","C","D","E","F","G","H","I","J","K","L","M","N","O","P","Q","R","S","T","U","V","W","X","Y","Z">>

LowerChars == <<"a","b","c","d","e","f","g","h","i","j","k","l","m","n","o","p","q","r","s","t","u","v","w","x","y","z">>

WhiteSpace == {" ", "\t", "\n", "\r"}

LowerOf == [c \in {UpperChars[i] : i \in 1..Len(UpperChars)} |->
              LowerChars[CHOOSE i \in 1..Len(UpperChars) : UpperChars[i] = c]]

ToLowerChar(c) == IF c \in DOMAIN LowerOf THEN LowerOf[c] ELSE c

ToLowerCase(s) == [i \in 1..Len(s) |-> ToLowerChar(s[i])]

RECURSIVE TrimStart(_)
TrimStart(s) == IF s # <<>> /\ Head(s) \in WhiteSpace THEN TrimStart(Tail(s)) ELSE s

RECURSIVE TrimEnd(_)
TrimEnd(s) ==
  IF s # <<>> /\ s[Len(s)] \in WhiteSpace THEN TrimEnd(SubSeq(s, 1, Len(s) - 1)) ELSE s

Trim(s) == TrimEnd(TrimStart(s))

Includes(s, p) == \E i \in 0..(Len(s) - Len(p)) : SubSeq(s, i + 1, i + Len(p)) = p

DigitChars == <<"0","1","2","3","4","5","6","7","8","9">>

RECURSIVE NumToString(_)
NumToString(n) ==
  IF n < 10 THEN <<DigitChars[n + 1]>>
  ELSE NumToString(n \div 10) \o <<DigitChars[(n % 10) + 1]>>

(***************************************************************************)
(* JavaScript values handed to the gateway: a string or something else     *)
(***************************************************************************)
Str(s) == [type |-> "string", val |-> s]

NotAString == [type |-> "number", val |-> <<>>]

(***************************************************************************)
(* sanitizeCommandArgs (input-sanitizer.js)                                *)
(***************************************************************************)
ArgDangerousPatterns ==
  << <<";">>,
     <<"|">>,
     <<"&">>,
     <<"&", "&">>,
     <<"|", "|">>,
     <<"backtick">>,
     <<"$", "(">>,
     <<"$", "(", ")">>,
     <<"$", "{">>,
     <<">">>,
     <<">", ">">>,
     <<"<">>,
     <<"<", "<">>,
     <<"\n">>,
     <<"\r">>,
     <<"\t">>,
     <<"\\">>,
     <<"r", "m", " ">>,
     <<"d", "e", "l", " ">>,
     <<"f", "o", "r", "m", "a", "t", " ">>,
     <<"m", "k", "f", "s">>,
     <<"d", "d", " ">>,
     <<"w", "g", "e", "t", " ">>,
     <<"c", "u", "r", "l", " ">>,
     <<"n", "c", " ">>,
     <<"n", "e", "t", "c", "a", "t">>,
     <<"t", "e", "l", "n", "e", "t">>,
     <<"s", "s", "h">>,
     <<"f", "t", "p">>,
     <<".", ".">>,
     <<"~">>,
     <<"/", "e", "t", "c", "/">>,
     <<"/", "t", "m", "p", "/">>,
     <<"e", "v", "a", "l">>,
     <<"e", "x", "e", "c">>,
     <<"s", "y", "s", "t", "e", "m">> >>

MAX_ARG_LENGTH == 1000

MsgArgNotString == <<"C", "o", "m", "m", "a", "n", "d", " ", "a", "r", "g", "u", "m", "e", "n", "t", " ", "m", "u", "s", "t", " ", "b", "e", " ", "a", " ", "s", "t", "r", "i", "n", "g">>

MsgArgDangerous == <<"D", "a", "n", "g", "e", "r", "o", "u", "s", " ", "p", "a", "t", "t", "e", "r", "n", " ", "d", "e", "t", "e", "c", "t", "e", "d", " ", "i", "n", " ", "c", "o", "m", "m", "a", "n", "d", " ", "a", "r", "g", "u", "m", "e", "n", "t", ":", " ">>

MsgArgTooLong == <<"C", "o", "m", "m", "a", "n", "d", " ", "a", "r", "g", "u", "m", "e", "n", "t", " ", "t", "o", "o", " ", "l", "o", "n", "g">>

\* pattern.toLowerCase(), for every pattern of the list
ArgDangerousPatternsLower ==
  [i \in 1..Len(ArgDangerousPatterns) |-> ToLowerCase(ArgDangerousPatterns[i])]

ArgPatternHits(trimmed) ==
  LET lowered == ToLowerCase(trimmed)
  IN {i \in 1..Len(ArgDangerousPatterns) : Includes(lowered, ArgDangerousPatternsLower[i])}

Min(S) == CHOOSE x \in S : \A y \in S : x <= y

\* The callback of argsArray.map: the outcome for one argument.
SanitizeArg(arg) ==
  IF arg.type # "string" THEN [ok |-> FALSE, value |-> <<>>, message |-> MsgArgNotString]
  ELSE LET trimmed == Trim(arg.val)
           hits == ArgPatternHits(trimmed)
       IN IF hits # {}
          THEN [ok |-> FALSE, value |-> <<>>,
                message |-> MsgArgDangerous \o ArgDangerousPatterns[Min(hits)]]
          ELSE IF Len(trimmed) > MAX_ARG_LENGTH
          THEN [ok |-> FALSE, value |-> <<>>, message |-> MsgArgTooLong]
          ELSE [ok |-> TRUE, value |-> trimmed, message |-> <<>>]

\* Array.isArray(args) ? args : [args]
ArgsArray(args) == IF args.isArray THEN args.items ELSE <<args.single>>

\* Stops looking after the first argument (mutant)
sanitizeCommandArgsFirstOnly(args) ==
  LET argsArray == ArgsArray(args)
  IN IF argsArray # <<>> /\ ~SanitizeArg(argsArray[1]).ok
     THEN [ok |-> FALSE, value |-> <<>>, message |-> SanitizeArg(argsArray[1]).message]
     ELSE [ok |-> TRUE, value |-> [i \in 1..Len(argsArray) |-> SanitizeArg(argsArray[i]).value],
           message |-> <<>>]

\* map() runs the callback in order; the first throw aborts the whole call.
sanitizeCommandArgs(args) ==
  LET argsArray == ArgsArray(args)
      bad == {i \in 1..Len(argsArray) : ~SanitizeArg(argsArray[i]).ok}
  IN IF bad # {}
     THEN [ok |-> FALSE, value |-> <<>>, message |-> SanitizeArg(argsArray[Min(bad)]).message]
     ELSE [ok |-> TRUE, value |-> [i \in 1..Len(argsArray) |-> SanitizeArg(argsArray[i]).value],
           message |-> <<>>]

(***************************************************************************)
(* execSecure: state of one call and of the child process it spawns        *)
(***************************************************************************)
DEFAULT_TIMEOUT == 30000

MAX_OUTPUT_SIZE == 1024 * 1024

KILL_GRACE_MS == 5000

ALLOWED_COMMANDS == {<<"n", "p", "m">>, <<"n", "o", "d", "e">>, <<"g", "i", "t">>, <<"y", "a", "r", "n">>, <<"p", "n", "p", "m">>}

MsgCommandEmpty == <<"C", "o", "m", "m", "a", "n", "d", " ", "m", "u", "s", "t", " ", "b", "e", " ", "a", " ", "n", "o", "n", "-", "e", "m", "p", "t", "y", " ", "s", "t", "r", "i", "n", "g">>

MsgOutputTooLarge == <<"C", "o", "m", "m", "a", "n", "d", " ", "o", "u", "t", "p", "u", "t", " ", "t", "o", "o", " ", "l", "a", "r", "g", "e", " ", "(", "m", "a", "x", " ", "1", "M", "B", ")">>

SIGTERM == <<"S", "I", "G", "T", "E", "R", "M">>

SIGKILL == <<"S", "I", "G", "K", "I", "L", "L">>

\* template: Command not allowed: ${sanitizedCommand}
ErrNotAllowed(sanitizedCommand) ==
  <<"C", "o", "m", "m", "a", "n", "d", " ", "n", "o", "t", " ", "a", "l", "l", "o", "w", "e", "d", ":", " ">> \o sanitizedCommand

\* template: Invalid command arguments: ${error.message}
ErrInvalidArgs(message) ==
  <<"I", "n", "v", "a", "l", "i", "d", " ", "c", "o", "m", "m", "a", "n", "d", " ", "a", "r", "g", "u", "m", "e", "n", "t", "s", ":", " ">> \o message

\* template: Command timed out after ${secureOptions.timeout}ms
ErrTimedOut(ms) ==
  <<"C", "o", "m", "m", "a", "n", "d", " ", "t", "i", "m", "e", "d", " ", "o", "u", "t", " ", "a", "f", "t", "e", "r", " ">> \o NumToString(ms) \o <<"m", "s">>

\* template: Command killed with signal: ${signal}
ErrKilled(signal) ==
  <<"C", "o", "m", "m", "a", "n", "d", " ", "k", "i", "l", "l", "e", "d", " ", "w", "i", "t", "h", " ", "s", "i", "g", "n", "a", "l", ":", " ">> \o signal

\* template: Command execution failed: ${error.message} (for the ENOENT error of spawn)
ErrExecFailed(command) ==
  <<"C", "o", "m", "m", "a", "n", "d", " ", "e", "x", "e", "c", "u", "t", "i", "o", "n", " ", "f", "a", "i", "l", "e", "d", ":", " ", "s", "p", "a", "w", "n", " ">> \o command \o <<" ", "E", "N", "O", "E", "N", "T">>

\* ALLOWED_COMMANDS.has(sanitizedCommand), with a case-insensitive variant used as a mutant
IsAllowedCommandAnyCase(sanitizedCommand) == ToLowerCase(sanitizedCommand) \in ALLOWED_COMMANDS

IsAllowedCommand(sanitizedCommand) == sanitizedCommand \in ALLOWED_COMMANDS

\* options.timeout || DEFAULT_TIMEOUT (0 stands for an absent or falsy option)
SecureTimeout(timeoutOpt) == IF timeoutOpt = 0 THEN DEFAULT_TIMEOUT ELSE timeoutOpt

Timer(state, at) == [state |-> state, at |-> at]

NoTimer == Timer("unset", 0)

\* clearTimeout: only a pending timer is affected
ClearTimeout(timer) == IF timer.state = "armed" THEN Timer("cleared", timer.at) ELSE timer

\* resolve()/reject() settle the promise once; later calls are ignored
SettledState(kind) == IF promiseState = "pending" THEN kind ELSE promiseState

SettledError(message) == IF promiseState = "pending" THEN message ELSE promiseError

\* child.kill(signal): delivered only to a process that has not exited; sets
\* child.killed when the signal was sent; SIGKILL cannot be ignored.
KillDelivered == childState = "running"

KillTerminates(signal) == KillDelivered /\ (signal = SIGKILL \/ ~childIgnoresTerm)

ChildStateAfterKill(signal) == IF KillTerminates(signal) THEN "exited" ELSE childState

ExitSignalAfterKill(signal) == IF KillTerminates(signal) THEN signal ELSE exitSignal

KilledAfterKill == IF KillDelivered THEN TRUE ELSE childKilled

ExecInit ==
  /\ execPc = "idle"
  /\ callCommand = NotAString
  /\ callArgs = [isArray |-> TRUE, items |-> <<>>, single |-> NotAString]
  /\ timeout = 0
  /\ promiseState = "none"
  /\ promiseError = <<>>
  /\ promiseValue = [stdout |-> 0, stderr |-> 0, exitCode |-> 0]
  /\ spawned = <<>>
  /\ childState = "none"
  /\ childKilled = FALSE
  /\ childIgnoresTerm = FALSE
  /\ exitCode = 0
  /\ exitSignal = <<>>
  /\ signalsSent = <<>>
  /\ timeoutId = NoTimer
  /\ killTimer = NoTimer
  /\ stdoutLen = 0
  /\ stderrLen = 0
  /\ outputSize = 0
  /\ timedOut = FALSE
  /\ chunks = 0
  /\ now = 0

(***************************************************************************)
(* Inputs of execSecure and behaviours of the child process                *)
(***************************************************************************)
MaxArgs == 2

MaxChunks == 2

MaxTime == 37000

TimeStep == 10000

LongArg == [i \in 1..(MAX_ARG_LENGTH + 1) |-> "a"]

SampleCommands ==
  { Str(<<"n", "p", "m">>), Str(<<" ", "g", "i", "t", " ">>), Str(<<"r", "m">>),
    Str(<<"c", "u", "r", "l">>), Str(<<"N", "o", "d", "e">>), Str(<<" ", " ">>), NotAString }

SampleArgs ==
  { Str(<<" ", "i", "n", "s", "t", "a", "l", "l", " ">>),
    Str(<<";", " ", "r", "m", " ", "-", "r", "f", " ", "/">>),
    Str(<<"$", "(", "i", "d", ")">>),
    NotAString }

RECURSIVE SeqsUpTo(_, _)
SeqsUpTo(S, n) ==
  IF n = 0 THEN {<<>>}
  ELSE LET shorter == SeqsUpTo(S, n - 1)
       IN shorter \cup {Append(s, x) : s \in {q \in shorter : Len(q) = n - 1}, x \in S}

SampleArgLists ==
  {[isArray |-> TRUE, items |-> s, single |-> NotAString] : s \in SeqsUpTo(SampleArgs, MaxArgs)}
    \cup {[isArray |-> FALSE, items |-> <<>>, single |-> a] : a \in SampleArgs \cup {Str(LongArg)}}

SampleTimeouts == {0, 1000}

ChunkSizes == {1, MAX_OUTPUT_SIZE}

ExitCodes == {0, 1}

(***************************************************************************)
(* execSecure(command, args, options): the synchronous part, up to spawn() *)
(* and the arming of the timeout                                           *)
(***************************************************************************)
ExecThrow(message) ==
  /\ execPc' = "threw"
  /\ promiseState' = "rejected"
  /\ promiseError' = message
  /\ UNCHANGED <<timeout, promiseValue, spawned, childState, childKilled, childIgnoresTerm,
                 exitCode, exitSignal, signalsSent, timeoutId, killTimer, stdoutLen,
                 stderrLen, outputSize, timedOut, chunks, now>>

ExecSpawn(sanitizedCommand, sanitizedArgs, ms) ==
  /\ execPc' = "spawned"
  /\ timeout' = ms
  /\ promiseState' = "pending"
  /\ spawned' = Append(spawned, [command |-> sanitizedCommand, args |-> sanitizedArgs])
  /\ childState' \in {"running", "failed"}
  /\ childIgnoresTerm' \in BOOLEAN
  /\ timeoutId' = Timer("armed", now + ms)
  /\ UNCHANGED <<promiseError, promiseValue, childKilled, exitCode, exitSignal, signalsSent,
                 killTimer, stdoutLen, stderrLen, outputSize, timedOut, chunks, now>>

execSecure(command, args, timeoutOpt) ==
  /\ execPc = "idle"
  /\ callCommand' = command
  /\ callArgs' = args
  /\ LET sanitizedCommand == Trim(command.val)
         sanitized == sanitizeCommandArgs(args)
     IN IF command.type # "string" \/ sanitizedCommand = <<>>
        THEN ExecThrow(MsgCommandEmpty)
        ELSE IF ~IsAllowedCommand(sanitizedCommand)
        THEN ExecThrow(ErrNotAllowed(sanitizedCommand))
        ELSE IF ~sanitized.ok
        THEN ExecThrow(ErrInvalidArgs(sanitized.message))
        ELSE ExecSpawn(sanitizedCommand, sanitized.value, SecureTimeout(timeoutOpt))

ExecCall ==
  /\ execPc = "idle"
  /\ \E command \in SampleCommands, args \in SampleArgLists, timeoutOpt \in SampleTimeouts :
       execSecure(command, args, timeoutOpt)
  /\ UNCHANGED execFrame

(***************************************************************************)
(* Event handlers of the spawned child                                     *)
(***************************************************************************)
\* child.on('error'): spawn failed
OnError ==
  /\ execPc = "spawned"
  /\ childState = "failed"
  /\ childState' = "closed"
  /\ timeoutId' = ClearTimeout(timeoutId)
  /\ promiseState' = SettledState("rejected")
  /\ promiseError' = SettledError(ErrExecFailed(spawned[1].command))
  /\ UNCHANGED <<execPc, callCommand, callArgs, timeout, promiseValue, spawned, childKilled,
                 childIgnoresTerm, exitCode, exitSignal, signalsSent, killTimer, stdoutLen,
                 stderrLen, outputSize, timedOut, chunks, now>>
  /\ UNCHANGED execFrame

\* outputSize > MAX_OUTPUT_SIZE, with an off-by-one variant used as a mutant
OutputTooLargeOffByOne(total) == total > MAX_OUTPUT_SIZE + 1

OutputTooLarge(total) == total > MAX_OUTPUT_SIZE

\* The shared body of the two data handlers; stream is "stdout" or "stderr".
OnData(stream, size) ==
  /\ execPc = "spawned"
  /\ childState \in {"running", "exited"}
  /\ chunks < MaxChunks
  /\ chunks' = chunks + 1
  /\ outputSize' = outputSize + size
  /\ IF OutputTooLarge(outputSize + size)
     THEN /\ signalsSent' = Append(signalsSent, SIGTERM)
          /\ childKilled' = KilledAfterKill
          /\ childState' = ChildStateAfterKill(SIGTERM)
          /\ exitSignal' = ExitSignalAfterKill(SIGTERM)
          /\ promiseState' = SettledState("rejected")
          /\ promiseError' = SettledError(MsgOutputTooLarge)
          /\ UNCHANGED <<stdoutLen, stderrLen>>
     ELSE /\ stdoutLen' = IF stream = "stdout" THEN stdoutLen + size ELSE stdoutLen
          /\ stderrLen' = IF stream = "stderr" THEN stderrLen + size ELSE stderrLen
          /\ UNCHANGED <<signalsSent, childKilled, childState, exitSignal, promiseState,
                         promiseError>>
  /\ UNCHANGED <<execPc, callCommand, callArgs, timeout, promiseValue, spawned,
                 childIgnoresTerm, exitCode, timeoutId, killTimer, timedOut, now>>
  /\ UNCHANGED execFrame

OnStdoutData == \E size \in ChunkSizes : OnData("stdout", size)

OnStderrData == \E size \in ChunkSizes : OnData("stderr", size)

\* The process exits by itself with an exit code.
ChildExits ==
  /\ execPc = "spawned"
  /\ childState = "running"
  /\ childState' = "exited"
  /\ \E code \in ExitCodes : exitCode' = code
  /\ UNCHANGED <<execPc, callCommand, callArgs, timeout, promiseState, promiseError,
                 promiseValue, spawned, childKilled, childIgnoresTerm, exitSignal, signalsSent,
                 timeoutId, killTimer, stdoutLen, stderrLen, outputSize, timedOut, chunks, now>>
  /\ UNCHANGED execFrame

\* child.on('close')
OnClose ==
  /\ execPc = "spawned"
  /\ childState = "exited"
  /\ childState' = "closed"
  /\ timeoutId' = ClearTimeout(timeoutId)
  /\ IF timedOut
     THEN /\ promiseState' = SettledState("rejected")
          /\ promiseError' = SettledError(ErrTimedOut(timeout))
          /\ UNCHANGED promiseValue
     ELSE IF exitSignal # <<>>
     THEN /\ promiseState' = SettledState("rejected")
          /\ promiseError' = SettledError(ErrKilled(exitSignal))
          /\ UNCHANGED promiseValue
     ELSE /\ promiseState' = SettledState("resolved")
          /\ promiseValue' = IF promiseState = "pending"
                             THEN [stdout |-> stdoutLen, stderr |-> stderrLen,
                                   exitCode |-> exitCode]
                             ELSE promiseValue
          /\ UNCHANGED promiseError
  /\ UNCHANGED <<execPc, callCommand, callArgs, timeout, spawned, childKilled,
                 childIgnoresTerm, exitCode, exitSignal, signalsSent, killTimer, stdoutLen,
                 stderrLen, outputSize, timedOut, chunks, now>>
  /\ UNCHANGED execFrame

\* The callback of the timeout timer
OnTimeout ==
  /\ timeoutId.state = "armed"
  /\ now >= timeoutId.at
  /\ timeoutId' = Timer("fired", timeoutId.at)
  /\ timedOut' = TRUE
  /\ signalsSent' = Append(signalsSent, SIGTERM)
  /\ childKilled' = KilledAfterKill
  /\ childState' = ChildStateAfterKill(SIGTERM)
  /\ exitSignal' = ExitSignalAfterKill(SIGTERM)
  /\ killTimer' = Timer("armed", now + KILL_GRACE_MS)
  /\ UNCHANGED <<execPc, callCommand, callArgs, timeout, promiseState, promiseError,
                 promiseValue, spawned, childIgnoresTerm, exitCode, stdoutLen, stderrLen,
                 outputSize, chunks, now>>
  /\ UNCHANGED execFrame

\* The callback of the nested timer: force kill "if process doesn't respond"
OnKillTimer ==
  /\ killTimer.state = "armed"
  /\ now >= killTimer.at
  /\ killTimer' = Timer("fired", killTimer.at)
  /\ IF ~childKilled
     THEN /\ signalsSent' = Append(signalsSent, SIGKILL)
          /\ childKilled' = KilledAfterKill
          /\ childState' = ChildStateAfterKill(SIGKILL)
          /\ exitSignal' = ExitSignalAfterKill(SIGKILL)
     ELSE UNCHANGED <<signalsSent, childKilled, childState, exitSignal>>
  /\ UNCHANGED <<execPc, callCommand, callArgs, timeout, promiseState, promiseError,
                 promiseValue, spawned, childIgnoresTerm, exitCode, timeoutId, stdoutLen,
                 stderrLen, outputSize, timedOut, chunks>>
  /\ UNCHANGED now
  /\ UNCHANGED execFrame

ExecDeadlines ==
  {timeoutId.at : x \in {1 : y \in {timeoutId.state} \cap {"armed"}}}
    \cup {killTimer.at : x \in {1 : y \in {killTimer.state} \cap {"armed"}}}

\* Time passes: never beyond a due timer, and not while an emitted 'error' or
\* 'close' event waits for its handler.
ExecTick ==
  /\ execPc = "spawned"
  /\ childState \notin {"failed", "exited"}
  /\ \E t \in ExecDeadlines \cup {now + TimeStep} :
       /\ t > now
       /\ \A d \in ExecDeadlines : t <= d
       /\ ExecDeadlines = {} => t <= MaxTime
       /\ now' = t
  /\ UNCHANGED <<execPc, callCommand, callArgs, timeout, promiseState, promiseError,
                 promiseValue, spawned, childState, childKilled, childIgnoresTerm, exitCode,
                 exitSignal, signalsSent, timeoutId, killTimer, stdoutLen, stderrLen,
                 outputSize, timedOut, chunks>>
  /\ UNCHANGED execFrame

ExecNext ==
  \/ ExecCall
  \/ OnError
  \/ OnStdoutData
  \/ OnStderrData
  \/ ChildExits
  \/ OnClose
  \/ OnTimeout
  \/ OnKillTimer
  \/ ExecTick

(***************************************************************************)
(* Claims about execSecure                                                 *)
(***************************************************************************)
Range(s) == {s[i] : i \in 1..Len(s)}

CallArgsArray == ArgsArray(callArgs)

CommandWhitelisted ==
  callCommand.type = "string" /\ Trim(callCommand.val) \in ALLOWED_COMMANDS

SomeArgRejected == \E i \in 1..Len(CallArgsArray) : ~SanitizeArg(CallArgsArray[i]).ok

\* C1: a child process is spawned only for a whitelisted command whose arguments
\* all passed sanitizeCommandArgs; a call with a non-whitelisted command or with
\* any rejected argument is rejected and nothing is ever spawned.
C1_SpawnOnlyAfterChecks ==
  /\ Len(spawned) <= 1
  /\ spawned # <<>> =>
       /\ CommandWhitelisted
       /\ ~SomeArgRejected
       /\ spawned[1].command = Trim(callCommand.val)
       /\ Len(spawned[1].args) = Len(CallArgsArray)
       /\ \A i \in 1..Len(CallArgsArray) : spawned[1].args[i] = Trim(CallArgsArray[i].val)
  /\ (execPc # "idle" /\ (~CommandWhitelisted \/ SomeArgRejected)) =>
       /\ execPc = "threw"
       /\ promiseState = "rejected"
       /\ spawned = <<>>
       /\ childState = "none"

\* A whitelisted command with two accepted arguments has been spawned.
C1_Witness ==
  /\ Len(spawned) = 1
  /\ Len(spawned[1].args) = 2
  /\ childState = "running"

\* C2 (as claimed): once the timeout has fired and the 5,000 ms grace period has
\* passed, the process has terminated and the call has settled with a failure.
C2_TimeoutTerminatesWithinGrace ==
  (timedOut /\ now > timeoutId.at + 5000) =>
    /\ childState = "closed"
    /\ promiseState = "rejected"

\* C3: the accumulated stdout and stderr together never exceed 1 MiB; chunks are
\* appended while the running count is within the cap, and once a chunk takes the
\* count over the cap it is not appended, SIGTERM is sent and the call is rejected
\* with the output-too-large failure.
C3_OutputCapped ==
  /\ stdoutLen + stderrLen <= 1048576
  /\ outputSize <= 1048576 => stdoutLen + stderrLen = outputSize
  /\ outputSize > 1048576 =>
       /\ stdoutLen + stderrLen < outputSize
       /\ SIGTERM \in Range(signalsSent)
       /\ promiseState = "rejected"
       /\ promiseError = MsgOutputTooLarge

\* The cap was exceeded by a chunk that arrived after output had been accumulated.
C3_Witness ==
  /\ outputSize > 1048576
  /\ stdoutLen + stderrLen = 1048576
  /\ promiseState = "rejected"

(***************************************************************************)
(* execWithRetry(commandFn, maxRetries, baseDelay)                         *)
(***************************************************************************)
MaxRetriesBound == 4

SampleBaseDelays == {100, 1000}

Undefined == [defined |-> FALSE, message |-> <<>>]

ErrorOf(message) == [defined |-> TRUE, message |-> message]

Failure(kind, message) == [ok |-> FALSE, kind |-> kind, message |-> message]

Success == [ok |-> TRUE, kind |-> "success", message |-> <<>>]

\* What a commandFn that calls execSecure settles with: a result, or one of the
\* rejections execSecure produces.
ExecSecureOutcomes ==
  { Success,
    Failure("empty", MsgCommandEmpty),
    Failure("notAllowed", ErrNotAllowed(<<"r", "m">>)),
    Failure("invalidArgs", ErrInvalidArgs(MsgArgNotString)),
    Failure("invalidArgs", ErrInvalidArgs(MsgArgDangerous \o <<";">>)),
    Failure("invalidArgs", ErrInvalidArgs(MsgArgTooLong)),
    Failure("tooLarge", MsgOutputTooLarge),
    Failure("timeout", ErrTimedOut(1000)),
    Failure("timeout", ErrTimedOut(DEFAULT_TIMEOUT)),
    Failure("signal", ErrKilled(SIGTERM)),
    Failure("spawn", ErrExecFailed(<<"n", "p", "m">>)) }

NOT_ALLOWED == <<"n", "o", "t", " ", "a", "l", "l", "o", "w", "e", "d">>

TIMEOUT == <<"t", "i", "m", "e", "o", "u", "t">>

TOO_LARGE == <<"t", "o", "o", " ", "l", "a", "r", "g", "e">>

\* The errors the catch block rethrows at once
NoRetry(message) ==
  \/ Includes(message, NOT_ALLOWED)
  \/ Includes(message, TIMEOUT)
  \/ Includes(message, TOO_LARGE)

RECURSIVE Pow2(_)
Pow2(n) == IF n = 0 THEN 1 ELSE 2 * Pow2(n - 1)

\* A delay that grows by baseDelay with every attempt (mutant)
BackoffDelayLinear(base, n) == base * n

\* baseDelay * Math.pow(2, attempt - 1)
BackoffDelay(base, n) == base * Pow2(n - 1)

RetryInit ==
  /\ retryPc = "idle"
  /\ maxRetries = 0
  /\ baseDelay = 0
  /\ attempt = 0
  /\ lastError = Undefined
  /\ retryThrown = Undefined
  /\ outcomes = <<>>
  /\ delays = <<>>

\* The call: the loop is entered and commandFn invoked, or, with no iteration
\* to run, lastError (undefined) is thrown.
execWithRetry(retries, base) ==
  /\ retryPc = "idle"
  /\ maxRetries' = retries
  /\ baseDelay' = base
  /\ attempt' = 1
  /\ IF 1 <= retries
     THEN retryPc' = "calling" /\ UNCHANGED retryThrown
     ELSE retryPc' = "threw" /\ retryThrown' = lastError
  /\ UNCHANGED <<lastError, outcomes, delays>>

RetryCall ==
  /\ retryPc = "idle"
  /\ \E retries \in 0..MaxRetriesBound, base \in SampleBaseDelays : execWithRetry(retries, base)
  /\ UNCHANGED retryFrame

\* await commandFn() settles: return on success, else the catch block
CommandSettles(outcome) ==
  /\ retryPc = "calling"
  /\ outcomes' = Append(outcomes, outcome)
  /\ IF outcome.ok
     THEN /\ retryPc' = "returned"
          /\ UNCHANGED <<lastError, retryThrown, attempt, delays>>
     ELSE /\ lastError' = ErrorOf(outcome.message)
          /\ IF NoRetry(outcome.message)
             THEN /\ retryPc' = "threw"
                  /\ retryThrown' = ErrorOf(outcome.message)
                  /\ UNCHANGED <<attempt, delays>>
             ELSE IF attempt < maxRetries
             THEN /\ retryPc' = "sleeping"
                  /\ delays' = Append(delays, BackoffDelay(baseDelay, attempt))
                  /\ UNCHANGED <<attempt, retryThrown>>
             ELSE \* the loop ends: throw lastError
                  /\ retryPc' = "threw"
                  /\ retryThrown' = ErrorOf(outcome.message)
                  /\ attempt' = attempt + 1
                  /\ UNCHANGED delays
  /\ UNCHANGED <<maxRetries, baseDelay>>

RetryAttempt ==
  /\ retryPc = "calling"
  /\ \E outcome \in ExecSecureOutcomes : CommandSettles(outcome)
  /\ UNCHANGED retryFrame

\* The backoff timer fires: next iteration, commandFn is invoked again
RetryWake ==
  /\ retryPc = "sleeping"
  /\ attempt' = attempt + 1
  /\ retryPc' = "calling"
  /\ UNCHANGED <<maxRetries, baseDelay, lastError, retryThrown, outcomes, delays>>
  /\ UNCHANGED retryFrame

RetryNext ==
  \/ RetryCall
  \/ RetryAttempt
  \/ RetryWake

(***************************************************************************)
(* Claims about execWithRetry                                              *)
(***************************************************************************)
TerminalKinds == {"notAllowed", "timeout", "tooLarge"}

\* C4 (as claimed): a command-not-allowed, timeout or output-size failure of
\* commandFn is never retried: it is the last invocation, no backoff follows it and
\* it is what execWithRetry throws.
C4_NoRetryOfTerminalFailures ==
  \A i \in 1..Len(outcomes) :
    outcomes[i].kind \in TerminalKinds =>
      /\ i = Len(outcomes)
      /\ Len(delays) = i - 1
      /\ retryPc = "threw"
      /\ retryThrown = ErrorOf(outcomes[i].message)

(***************************************************************************)
(* Further claims about execWithRetry and execSecure                        *)
(***************************************************************************)
\* C27: when execSecure rejects the argument list as invalid, execWithRetry
\* has invoked the command once, waits for no backoff delay and rethrows that
\* failure.
C27_InvalidArgsNotRetried ==
  \A i \in 1..Len(outcomes) :
    outcomes[i].kind = "invalidArgs" =>
      /\ i = Len(outcomes)
      /\ retryPc = "threw"
      /\ retryThrown = ErrorOf(outcomes[i].message)
      /\ (i = 1 => delays = <<>>)

\* C28: once execSecure has rejected with output-too-large, the child process
\* is eventually terminated, also when it ignores SIGTERM, and no timer of the
\* call stays armed.
C28_CleanupAfterOutputCap ==
  (promiseError = MsgOutputTooLarge)
    ~> (childState = "closed" /\ timeoutId.state # "armed" /\ killTimer.state # "armed")


\* C35: with maxRetries >= 1 the command is invoked one call at a time and at
\* most maxRetries times; a success is returned and ends the calls; the k-th
\* failure is followed by a wait of baseDelay * 2^(k-1) ms before the next
\* invocation; there is no wait after the last invocation, whose failure is
\* what execWithRetry throws.
C35_SequentialBackoff ==
  (retryPc # "idle" /\ maxRetries >= 1) =>
    /\ Len(outcomes) <= maxRetries
    /\ \A i \in 1..(Len(outcomes) - 1) : ~ outcomes[i].ok
    /\ \A k \in 1..Len(delays) : delays[k] = baseDelay * 2^(k - 1)
    /\ retryPc = "calling" => (attempt = Len(outcomes) + 1 /\ Len(delays) = Len(outcomes))
    /\ retryPc = "sleeping" => (Len(delays) = Len(outcomes) /\ Len(outcomes) < maxRetries)
    /\ retryPc = "returned" =>
         (outcomes[Len(outcomes)].ok /\ Len(delays) = Len(outcomes) - 1)
    /\ retryPc = "threw" =>
         /\ ~ outcomes[Len(outcomes)].ok
         /\ Len(delays) = Len(outcomes) - 1
         /\ retryThrown = ErrorOf(outcomes[Len(outcomes)].message)

\* Four failures with the three waits between them, then the last one thrown
C35_Witness ==
  /\ retryPc = "threw"
  /\ maxRetries = 4
  /\ baseDelay = 100
  /\ Len(outcomes) = 4
  /\ delays = <<100, 200, 400>>
  /\ retryThrown = ErrorOf(outcomes[4].message)
(***************************************************************************)
(* execBatch(commands, maxConcurrency)                                     *)
(***************************************************************************)
MaxCommands == 4

MaxConcurrencyBound == 2

BatchInit ==
  /\ batchPc = "idle"
  /\ batchCount = 0
  /\ maxConcurrency = 0
  /\ nextIndex = 1
  /\ cmdStatus = <<>>
  /\ executing = <<>>
  /\ results = <<>>
  /\ raceState = "none"
  /\ batchResult = <<>>

InFlight == {i \in 1..Len(cmdStatus) : cmdStatus[i] = "pending"}

Remove(s, x) == SelectSeq(s, LAMBDA y : y # x)

\* executing.length >= maxConcurrency, with an off-by-one variant used as a mutant
AtCapacityOffByOne(length, limit) == length > limit

AtCapacity(length, limit) == length >= limit

\* Promise.race(list): settled like the first already settled member of the list,
\* pending if none is settled. A fulfilled promise has left the executing array.
RaceOf(list, status) ==
  IF \E k \in 1..Len(list) : status[list[k]] = "rejected" THEN "rejected" ELSE "pending"

\* The call: with no command the loop is skipped and Promise.allSettled awaited.
execBatch(count, limit) ==
  /\ batchPc = "idle"
  /\ batchCount' = count
  /\ maxConcurrency' = limit
  /\ cmdStatus' = [i \in 1..count |-> "notStarted"]
  /\ batchPc' = IF count = 0 THEN "allSettled" ELSE "loop"
  /\ UNCHANGED <<nextIndex, executing, results, raceState, batchResult>>

BatchCall ==
  /\ batchPc = "idle"
  /\ \E count \in 0..MaxCommands, limit \in 0..MaxConcurrencyBound : execBatch(count, limit)
  /\ UNCHANGED batchFrame

\* One iteration of the for loop, up to its await or to the next iteration:
\* commandFn() is called and its promise pushed on results and executing.
BatchStart ==
  /\ batchPc = "loop"
  /\ nextIndex <= batchCount
  /\ cmdStatus' = [cmdStatus EXCEPT ![nextIndex] = "pending"]
  /\ results' = Append(results, nextIndex)
  /\ executing' = Append(executing, nextIndex)
  /\ nextIndex' = nextIndex + 1
  /\ IF AtCapacity(Len(executing) + 1, maxConcurrency)
     THEN /\ batchPc' = "awaitRace"
          /\ raceState' = RaceOf(executing', cmdStatus')
     ELSE /\ batchPc' = IF nextIndex + 1 > batchCount THEN "allSettled" ELSE "loop"
          /\ UNCHANGED raceState
  /\ UNCHANGED <<batchCount, maxConcurrency, batchResult>>
  /\ UNCHANGED batchFrame

\* A started command settles while execBatch is suspended (or has rejected). On
\* success the then-callback removes the promise from executing; there is no
\* rejection callback, so a failed promise stays in the array.
CommandSettled(i, ok) ==
  /\ batchPc \in {"awaitRace", "allSettled", "rejected"}
  /\ cmdStatus[i] = "pending"
  /\ cmdStatus' = [cmdStatus EXCEPT ![i] = IF ok THEN "fulfilled" ELSE "rejected"]
  /\ executing' = IF ok THEN Remove(executing, i) ELSE executing
  /\ raceState' = IF batchPc = "awaitRace" /\ raceState = "pending"
                  THEN (IF ok THEN "fulfilled" ELSE "rejected")
                  ELSE raceState
  /\ UNCHANGED <<batchPc, batchCount, maxConcurrency, nextIndex, results, batchResult>>

BatchSettle ==
  /\ \E i \in 1..batchCount, ok \in BOOLEAN : CommandSettled(i, ok)
  /\ UNCHANGED batchFrame

\* await Promise.race(executing) completes: the loop goes on, or the rejection of
\* the race is thrown out of execBatch.
BatchResume ==
  /\ batchPc = "awaitRace"
  /\ raceState \in {"fulfilled", "rejected"}
  /\ batchPc' = IF raceState = "rejected" THEN "rejected"
                ELSE IF nextIndex > batchCount THEN "allSettled" ELSE "loop"
  /\ raceState' = "none"
  /\ UNCHANGED <<batchCount, maxConcurrency, nextIndex, cmdStatus, executing, results,
                 batchResult>>
  /\ UNCHANGED batchFrame

\* Promise.allSettled(results) resolves once every promise in results has settled.
BatchAllSettled ==
  /\ batchPc = "allSettled"
  /\ \A k \in 1..Len(results) : cmdStatus[results[k]] \in {"fulfilled", "rejected"}
  /\ batchPc' = "resolved"
  /\ batchResult' = [k \in 1..Len(results) |-> cmdStatus[results[k]]]
  /\ UNCHANGED <<batchCount, maxConcurrency, nextIndex, cmdStatus, executing, results,
                 raceState>>
  /\ UNCHANGED batchFrame

BatchNext ==
  \/ BatchCall
  \/ BatchStart
  \/ BatchSettle
  \/ BatchResume
  \/ BatchAllSettled

(***************************************************************************)
(* Claims about execBatch                                                  *)
(***************************************************************************)
\* C5: for maxConcurrency >= 1, at every instant the number of commands started
\* and not yet settled is at most maxConcurrency.
C5_BoundedFanOut ==
  (batchPc # "idle" /\ maxConcurrency >= 1) => Cardinality(InFlight) <= maxConcurrency

\* The ceiling is reached while commands are still waiting to be started, one of
\* the earlier commands having already failed or succeeded.
C5_Witness ==
  /\ maxConcurrency = 2
  /\ Cardinality(InFlight) = 2
  /\ nextIndex = 4
  /\ batchPc = "awaitRace"

\* C6 (as claimed): with maxConcurrency >= 1, execBatch never rejects, and when it resolves every command
\* was started and the result holds one settled outcome per input, in input order.
C6_NeverShortCircuits ==
  maxConcurrency >= 1 =>
    /\ batchPc # "rejected"
    /\ batchPc = "resolved" =>
         /\ Len(batchResult) = batchCount
         /\ \A i \in 1..batchCount :
              cmdStatus[i] \in {"fulfilled", "rejected"} /\ batchResult[i] = cmdStatus[i]

(***************************************************************************)
(* validateUrl and RateLimiter (input-sanitizer.js)                        *)
(***************************************************************************)
StartsWith(s, p) == Len(s) >= Len(p) /\ SubSeq(s, 1, Len(p)) = p

\* A url argument: not a string, a string new URL() rejects, or a string that
\* parses into a protocol and a hostname.
Url(protocol, hostname) ==
  [type |-> "string", parses |-> TRUE, protocol |-> protocol, hostname |-> hostname]

MalformedUrl == [type |-> "string", parses |-> FALSE, protocol |-> <<>>, hostname |-> <<>>]

NotAStringUrl == [type |-> "number", parses |-> FALSE, protocol |-> <<>>, hostname |-> <<>>]

HTTPS == <<"h", "t", "t", "p", "s", ":">>

REGISTRY == <<"r", "e", "g", "i", "s", "t", "r", "y", ".", "n", "p", "m", "j", "s", ".", "o", "r", "g">>

API_GITHUB == <<"a", "p", "i", ".", "g", "i", "t", "h", "u", "b", ".", "c", "o", "m">>

allowedDomains == {REGISTRY, API_GITHUB, <<"r", "a", "w", ".", "g", "i", "t", "h", "u", "b", "u", "s", "e", "r", "c", "o", "n", "t", "e", "n", "t", ".", "c", "o", "m">>}

\* /^172\.(1[6-9]|2\d|3[01])\./
PrivateClassB(hostname) ==
  /\ StartsWith(hostname, <<"1", "7", "2", ".">>)
  /\ Len(hostname) >= 7
  /\ hostname[7] = "."
  /\ \/ hostname[5] = "1" /\ hostname[6] \in {"6", "7", "8", "9"}
     \/ hostname[5] = "2" /\ hostname[6] \in {DigitChars[i] : i \in 1..10}
     \/ hostname[5] = "3" /\ hostname[6] \in {"0", "1"}

privateIpPatterns(hostname) ==
  \/ StartsWith(hostname, <<"1", "2", "7", ".">>)
  \/ StartsWith(hostname, <<"1", "0", ".">>)
  \/ PrivateClassB(hostname)
  \/ StartsWith(hostname, <<"1", "9", "2", ".", "1", "6", "8", ".">>)
  \/ StartsWith(hostname, <<"1", "6", "9", ".", "2", "5", "4", ".">>)
  \/ hostname = <<":", ":", "1">>
  \/ StartsWith(hostname, <<"f", "c", "0", "0", ":", ":">>)
  \/ StartsWith(hostname, <<"f", "e", "8", "0", ":", ":">>)

Err(name, message) == [name |-> name, message |-> message]

NoError == Err("none", <<>>)

UrlRejected(message) == [ok |-> FALSE, hostname |-> <<>>, error |-> Err("Error", message)]

\* A validation that does not look at the scheme (mutant)
validateUrlAnyScheme(url) ==
  IF url.type = "string" /\ url.parses /\ url.hostname \in allowedDomains
  THEN [ok |-> TRUE, hostname |-> url.hostname, error |-> NoError]
  ELSE UrlRejected(<<>>)

validateUrl(url) ==
  IF url.type # "string" THEN UrlRejected(<<"U", "R", "L", " ", "m", "u", "s", "t", " ", "b", "e", " ", "a", " ", "s", "t", "r", "i", "n", "g">>)
  ELSE IF ~url.parses THEN UrlRejected(<<"I", "n", "v", "a", "l", "i", "d", " ", "U", "R", "L", " ", "f", "o", "r", "m", "a", "t">>)
  ELSE IF url.protocol # HTTPS THEN UrlRejected(<<"O", "n", "l", "y", " ", "H", "T", "T", "P", "S", " ", "U", "R", "L", "s", " ", "a", "r", "e", " ", "a", "l", "l", "o", "w", "e", "d">>)
  ELSE IF url.hostname \notin allowedDomains
  THEN UrlRejected(<<"D", "o", "m", "a", "i", "n", " ", "n", "o", "t", " ", "i", "n", " ", "w", "h", "i", "t", "e", "l", "i", "s", "t", ":", " ">> \o url.hostname)
  ELSE IF privateIpPatterns(url.hostname)
  THEN UrlRejected(<<"A", "c", "c", "e", "s", "s", " ", "t", "o", " ", "p", "r", "i", "v", "a", "t", "e", " ", "I", "P", " ", "r", "a", "n", "g", "e", "s", " ", "n", "o", "t", " ", "a", "l", "l", "o", "w", "e", "d">>)
  ELSE [ok |-> TRUE, hostname |-> url.hostname, error |-> NoError]

\* A filter that keeps the timestamp lying exactly on the window start (mutant)
ValidTimestampsInclusive(timestamps, windowStart) ==
  SelectSeq(timestamps, LAMBDA ts : ts >= windowStart)

\* timestamps.filter((ts) => ts > windowStart)
ValidTimestamps(timestamps, windowStart) == SelectSeq(timestamps, LAMBDA ts : ts > windowStart)

\* The cleaning loop of isAllowed: every key is pruned, emptied keys are deleted.
Cleaned(reqs, windowMs, time) ==
  [key \in DOMAIN reqs |-> ValidTimestamps(reqs[key], time - windowMs)]

\* validRequests.length >= this.maxRequests, with an off-by-one variant used as a mutant
QuotaExhaustedOffByOne(count, maxRequests) == count > maxRequests

QuotaExhausted(count, maxRequests) == count >= maxRequests

\* Variants of isAllowed used as mutants: one that records no accepted call,
\* one that counts the calls of all identifiers together, one that records
\* the refused call too
isAllowedForgetful(reqs, lim, identifier, time) ==
  LET cleaned == Cleaned(reqs, lim.windowMs, time)
  IN [allowed |-> ~QuotaExhausted(Len(cleaned[identifier]), lim.maxRequests),
      requests |-> cleaned]

isAllowedSharedQuota(reqs, lim, identifier, time) ==
  LET cleaned == Cleaned(reqs, lim.windowMs, time)
      all == UNION {{<<key, k>> : k \in 1..Len(cleaned[key])} : key \in DOMAIN cleaned}
  IN IF QuotaExhausted(Cardinality(all), lim.maxRequests)
     THEN [allowed |-> FALSE, requests |-> cleaned]
     ELSE [allowed |-> TRUE,
           requests |-> [cleaned EXCEPT ![identifier] = Append(cleaned[identifier], time)]]

isAllowedRecordsRefusal(reqs, lim, identifier, time) ==
  LET cleaned == Cleaned(reqs, lim.windowMs, time)
  IN [allowed |-> ~QuotaExhausted(Len(cleaned[identifier]), lim.maxRequests),
      requests |-> [cleaned EXCEPT ![identifier] = Append(cleaned[identifier], time)]]

\* RateLimiter.isAllowed(identifier) at the given time: the value returned and
\* the requests map it leaves.
isAllowed(reqs, lim, identifier, time) ==
  LET cleaned == Cleaned(reqs, lim.windowMs, time)
      validRequests == ValidTimestamps(cleaned[identifier], time - lim.windowMs)
  IN IF QuotaExhausted(Len(validRequests), lim.maxRequests)
     THEN [allowed |-> FALSE, requests |-> cleaned]
     ELSE [allowed |-> TRUE,
           requests |-> [cleaned EXCEPT ![identifier] = Append(validRequests, time)]]

\* RateLimiter.getTimeUntilReset(identifier)
getTimeUntilReset(reqs, lim, identifier, time) ==
  IF reqs[identifier] = <<>> THEN 0
  ELSE LET oldestRequest == Min({reqs[identifier][k] : k \in 1..Len(reqs[identifier])})
           resetTime == oldestRequest + lim.windowMs
       IN IF resetTime - time > 0 THEN resetTime - time ELSE 0

(***************************************************************************)
(* SecureHttpClient (secure-http.js)                                       *)
(***************************************************************************)
HTTP_DEFAULT_TIMEOUT == 10000

DEFAULT_MAX_RETRIES == 3

MAX_RESPONSE_SIZE == 5 * 1024 * 1024

DEFAULT_RATE_LIMITER == [maxRequests |-> 10, windowMs |-> 60000]

\* Math.ceil(resetTime / 1000)
CeilSeconds(ms) == (ms + 999) \div 1000

\* template: Rate limit exceeded. Try again in ${Math.ceil(resetTime / 1000)} seconds
ErrRateLimit(resetTime) ==
  Err("Error", <<"R", "a", "t", "e", " ", "l", "i", "m", "i", "t", " ", "e", "x", "c", "e", "e", "d", "e", "d", ".", " ", "T", "r", "y", " ", "a", "g", "a", "i", "n", " ", "i", "n", " ">> \o NumToString(CeilSeconds(resetTime)) \o <<" ", "s", "e", "c", "o", "n", "d", "s">>)

\* template: Response too large: ${contentLength} bytes (max ${this.maxResponseSize})
ErrResponseTooLarge(contentLength, cap) ==
  Err("Error", <<"R", "e", "s", "p", "o", "n", "s", "e", " ", "t", "o", "o", " ", "l", "a", "r", "g", "e", ":", " ">> \o NumToString(contentLength) \o <<" ", "b", "y", "t", "e", "s", " ", "(", "m", "a", "x", " ">> \o NumToString(cap) \o <<")">>)

\* template: Response body too large: ${totalSize} bytes (max ${this.maxResponseSize})
ErrBodyTooLarge(size, cap) ==
  Err("Error", <<"R", "e", "s", "p", "o", "n", "s", "e", " ", "b", "o", "d", "y", " ", "t", "o", "o", " ", "l", "a", "r", "g", "e", ":", " ">> \o NumToString(size) \o <<" ", "b", "y", "t", "e", "s", " ", "(", "m", "a", "x", " ">> \o NumToString(cap) \o <<")">>)

\* response.statusText of the error statuses used
StatusText(status) == IF status = 404 THEN <<"N", "o", "t", " ", "F", "o", "u", "n", "d">> ELSE <<"I", "n", "t", "e", "r", "n", "a", "l", " ", "S", "e", "r", "v", "e", "r", " ", "E", "r", "r", "o", "r">>

\* text.length > 1000 ? text.substring(0, 1000) + '...' : text
SafeText(text) == IF Len(text) > 1000 THEN SubSeq(text, 1, 1000) \o <<".", ".", ".">> ELSE text

UNABLE_TO_READ == <<"U", "n", "a", "b", "l", "e", " ", "t", "o", " ", "r", "e", "a", "d", " ", "r", "e", "s", "p", "o", "n", "s", "e">>

\* template: HTTP ${response.status}: ${errorText || response.statusText}
ErrHttp(status, errorText) ==
  Err("Error", <<"H", "T", "T", "P", " ">> \o NumToString(status) \o <<":", " ">>
                 \o (IF errorText # <<>> THEN errorText ELSE StatusText(status)))

\* What fetch() rejects with: an abort through the signal, or a network failure
AbortError == Err("AbortError", <<"T", "h", "i", "s", " ", "o", "p", "e", "r", "a", "t", "i", "o", "n", " ", "w", "a", "s", " ", "a", "b", "o", "r", "t", "e", "d">>)

FetchFailed == Err("TypeError", <<"f", "e", "t", "c", "h", " ", "f", "a", "i", "l", "e", "d">>)

\* The errors the catch block of request() rethrows at once; the mutant forgets
\* the abort test.
HttpNoRetryWithoutAbort(error) ==
  \/ Includes(error.message, <<"R", "a", "t", "e", " ", "l", "i", "m", "i", "t">>)
  \/ Includes(error.message, <<"n", "o", "t", " ", "i", "n", " ", "w", "h", "i", "t", "e", "l", "i", "s", "t">>)
  \/ Includes(error.message, TOO_LARGE)

HttpNoRetry(error) ==
  \/ error.name = "AbortError"
  \/ Includes(error.message, <<"R", "a", "t", "e", " ", "l", "i", "m", "i", "t">>)
  \/ Includes(error.message, <<"n", "o", "t", " ", "i", "n", " ", "w", "h", "i", "t", "e", "l", "i", "s", "t">>)
  \/ Includes(error.message, TOO_LARGE)

\* 1000 * Math.pow(2, attempt - 1)
HttpBackoff(n) == 1000 * Pow2(n - 1)

\* Bounds of the HTTP client model
MaxHttpCalls == 2

MaxBodyChunks == 2

MaxHttpTime == 4000

HttpTimeStep == 4000

NoLimiterOption == [maxRequests |-> 0, windowMs |-> 0]

\* options objects passed to the constructor; 0 stands for a property left out
SampleClientOptions ==
  { [timeout |-> 0, maxRetries |-> 0, maxResponseSize |-> 0, rateLimiter |-> NoLimiterOption],
    [timeout |-> 2000, maxRetries |-> 2, maxResponseSize |-> 4,
     rateLimiter |-> [maxRequests |-> 1, windowMs |-> 3000]],
    [timeout |-> 2000, maxRetries |-> 1, maxResponseSize |-> 4,
     rateLimiter |-> [maxRequests |-> 2, windowMs |-> 3000]] }

SampleUrls ==
  { Url(HTTPS, REGISTRY), Url(HTTPS, API_GITHUB),
    Url(<<"h", "t", "t", "p", ":">>, REGISTRY),
    Url(HTTPS, <<"e", "v", "i", "l", ".", "c", "o", "m">>),
    Url(HTTPS, <<"1", "2", "7", ".", "0", ".", "0", ".", "1">>),
    MalformedUrl, NotAStringUrl }

Statuses == {200, 304, 500}

BodyLengths(cap) == {0, cap, cap + 1}

\* The responses a server can send: a Content-Length header (-1: none) that is
\* truthful when present; a null body on a 304 and on some 200, with no header.
SampleResponses(cap) ==
  { r \in [status : Statuses, contentLength : {-1, cap, cap + 1},
           hasBody : BOOLEAN, bodyLength : BodyLengths(cap)] :
      /\ ~r.hasBody => r.bodyLength = 0 /\ r.contentLength = -1 /\ r.status # 500
      /\ r.status = 304 => ~r.hasBody
      /\ (r.hasBody /\ r.contentLength >= 0) => r.bodyLength = r.contentLength }

NoResponse == [status |-> 0, contentLength |-> -1, hasBody |-> FALSE, bodyLength |-> 0]

NoReturn == [status |-> 0, bodySize |-> 0, rebuilt |-> FALSE]

Attempt(start, end, kind) == [start |-> start, end |-> end, kind |-> kind]

\* options.x || DEFAULT
OrDefault(value, default) == IF value = 0 THEN default ELSE value

\* response.ok
ResponseOk(status) == status >= 200 /\ status <= 299

\* What safeReadResponse returns for an ASCII body of n bytes: the first 1000
\* characters of a longer text do not depend on how much longer it is.
SafeReadText(n) ==
  IF n > 1000 THEN SafeText([i \in 1..1001 |-> "x"]) ELSE SafeText([i \in 1..n |-> "x"])

BodyReadFailed == Err("TypeError", <<"t", "e", "r", "m", "i", "n", "a", "t", "e", "d">>)

HttpInit ==
  /\ client = [built |-> FALSE, timeout |-> 0, maxRetries |-> 0, maxResponseSize |-> 0]
  /\ limiter = DEFAULT_RATE_LIMITER
  /\ requests = [key \in allowedDomains |-> <<>>]
  /\ httpPc = "idle"
  /\ reqUrl = MalformedUrl
  /\ callStart = 0
  /\ requestsAtCall = [key \in allowedDomains |-> <<>>]
  /\ slotTaken = FALSE
  /\ httpAttempt = 0
  /\ attempts = <<>>
  /\ abortTimer = NoTimer
  /\ response = NoResponse
  /\ totalSize = 0
  /\ bodyChunks = 0
  /\ readerLocked = FALSE
  /\ wakeAt = 0
  /\ httpThrown = NoError
  /\ httpReturned = NoReturn
  /\ httpCalls = 0
  /\ httpNow = 0

\* new SecureHttpClient(options)
SecureHttpClient(options) ==
  /\ client' = [built |-> TRUE,
                timeout |-> OrDefault(options.timeout, HTTP_DEFAULT_TIMEOUT),
                maxRetries |-> OrDefault(options.maxRetries, DEFAULT_MAX_RETRIES),
                maxResponseSize |-> OrDefault(options.maxResponseSize, MAX_RESPONSE_SIZE)]
  /\ limiter' = IF options.rateLimiter = NoLimiterOption
                THEN DEFAULT_RATE_LIMITER ELSE options.rateLimiter
  /\ UNCHANGED <<requests, httpPc, reqUrl, callStart, requestsAtCall, slotTaken, httpAttempt,
                 attempts, abortTimer, response, totalSize, bodyChunks, readerLocked, wakeAt,
                 httpThrown, httpReturned, httpCalls, httpNow>>

NewClient ==
  /\ ~client.built
  /\ \E options \in SampleClientOptions : SecureHttpClient(options)
  /\ UNCHANGED httpFrame

\* The head of the try block: a controller and its timer, then fetch(); the
\* response and the read counters are locals of the iteration
StartAttempt(n, log) ==
  /\ httpAttempt' = n
  /\ response' = NoResponse
  /\ totalSize' = 0
  /\ bodyChunks' = 0
  /\ abortTimer' = Timer("armed", httpNow + client.timeout)
  /\ attempts' = Append(log, Attempt(httpNow, -1, "open"))
  /\ httpPc' = "fetching"

\* request() throws before the retry loop
ThrowBeforeLoop(error) ==
  /\ httpPc' = "threw"
  /\ httpThrown' = error
  /\ attempts' = <<>>
  /\ httpAttempt' = 0
  /\ abortTimer' = NoTimer
  /\ response' = NoResponse
  /\ totalSize' = 0
  /\ bodyChunks' = 0

\* request(url): validation, the rate-limit check, and the start of attempt 1
request(url) ==
  LET validatedUrl == validateUrl(url)
      rateLimitKey == validatedUrl.hostname
      check == isAllowed(requests, limiter, rateLimitKey, httpNow)
  IN /\ reqUrl' = url
     /\ callStart' = httpNow
     /\ requestsAtCall' = requests
     /\ httpCalls' = httpCalls + 1
     /\ readerLocked' = FALSE
     /\ wakeAt' = 0
     /\ httpReturned' = NoReturn
     /\ IF ~validatedUrl.ok
        THEN /\ ThrowBeforeLoop(validatedUrl.error)
             /\ slotTaken' = FALSE
             /\ requests' = requests
        ELSE /\ requests' = check.requests
             /\ slotTaken' = check.allowed
             /\ IF ~check.allowed
                THEN ThrowBeforeLoop(ErrRateLimit(
                       getTimeUntilReset(check.requests, limiter, rateLimitKey, httpNow)))
                ELSE /\ StartAttempt(1, <<>>)
                     /\ httpThrown' = NoError
     /\ UNCHANGED <<client, limiter, httpNow>>

HttpRequest ==
  /\ client.built
  /\ httpPc \in {"idle", "returned", "threw"}
  /\ httpCalls < MaxHttpCalls
  /\ httpNow <= MaxHttpTime
  /\ \E url \in SampleUrls : request(url)
  /\ UNCHANGED httpFrame

CloseAttempt(kind) ==
  [attempts EXCEPT ![Len(attempts)] = Attempt(@.start, httpNow, kind)]

\* The catch block of the retry loop, and the throw after the loop
HttpCatch(kind, error) ==
  /\ attempts' = CloseAttempt(kind)
  /\ IF HttpNoRetry(error)
     THEN /\ httpPc' = "threw"
          /\ httpThrown' = error
          /\ wakeAt' = wakeAt
     ELSE IF httpAttempt < client.maxRetries
     THEN /\ httpPc' = "backoff"
          /\ wakeAt' = httpNow + HttpBackoff(httpAttempt)
          /\ httpThrown' = httpThrown
     ELSE /\ httpPc' = "threw"
          /\ httpThrown' = error
          /\ wakeAt' = wakeAt

HttpReturn(status, bodySize, rebuilt) ==
  /\ attempts' = CloseAttempt("ok")
  /\ httpPc' = "returned"
  /\ httpReturned' = [status |-> status, bodySize |-> bodySize, rebuilt |-> rebuilt]
  /\ UNCHANGED <<httpThrown, wakeAt>>

\* fetch() resolves with a response: lines 93-117 of request()
OnResponse(r) ==
  /\ abortTimer' = ClearTimeout(abortTimer)
  /\ response' = r
  /\ IF r.contentLength >= 0 /\ r.contentLength > client.maxResponseSize
     THEN /\ HttpCatch("sizeHeader", ErrResponseTooLarge(r.contentLength, client.maxResponseSize))
          /\ UNCHANGED <<readerLocked, httpReturned>>
     ELSE IF ResponseOk(r.status)
     THEN IF ~r.hasBody
          THEN /\ HttpReturn(r.status, 0, FALSE)
               /\ UNCHANGED readerLocked
          ELSE /\ httpPc' = "readingBody"
               /\ readerLocked' = TRUE
               /\ UNCHANGED <<attempts, httpThrown, httpReturned, wakeAt>>
     ELSE IF r.status >= 400
     THEN /\ httpPc' = "readingError"
          /\ UNCHANGED <<attempts, httpThrown, httpReturned, wakeAt, readerLocked>>
     ELSE /\ HttpReturn(r.status, r.bodyLength, FALSE)
          /\ UNCHANGED readerLocked
  /\ UNCHANGED <<client, limiter, requests, reqUrl, callStart, requestsAtCall, slotTaken,
                 httpAttempt, totalSize, bodyChunks, httpCalls, httpNow>>

FetchResponds ==
  /\ httpPc = "fetching"
  /\ \E r \in SampleResponses(client.maxResponseSize) : OnResponse(r)
  /\ UNCHANGED httpFrame

\* fetch() rejects with a network failure; the timer of the attempt is not cleared
FetchFails ==
  /\ httpPc = "fetching"
  /\ HttpCatch("network", FetchFailed)
  /\ UNCHANGED <<client, limiter, requests, reqUrl, callStart, requestsAtCall, slotTaken,
                 httpAttempt, abortTimer, response, totalSize, bodyChunks, readerLocked,
                 httpReturned, httpCalls, httpNow>>
  /\ UNCHANGED httpFrame

\* The timer of the attempt fires: controller.abort() makes fetch() reject
OnAbortTimeout ==
  /\ httpPc = "fetching"
  /\ abortTimer.state = "armed"
  /\ httpNow >= abortTimer.at
  /\ abortTimer' = Timer("fired", abortTimer.at)
  /\ HttpCatch("abort", AbortError)
  /\ UNCHANGED <<client, limiter, requests, reqUrl, callStart, requestsAtCall, slotTaken,
                 httpAttempt, response, totalSize, bodyChunks, readerLocked, httpReturned,
                 httpCalls, httpNow>>
  /\ UNCHANGED httpFrame

\* One turn of the read loop of validateResponseBody that yields a chunk
ReadChunk(size) ==
  /\ totalSize' = totalSize + size
  /\ bodyChunks' = bodyChunks + 1
  /\ IF totalSize + size > client.maxResponseSize
     THEN /\ readerLocked' = FALSE
          /\ HttpCatch("sizeBody", ErrBodyTooLarge(totalSize + size, client.maxResponseSize))
     ELSE UNCHANGED <<readerLocked, httpPc, attempts, httpThrown, wakeAt>>
  /\ UNCHANGED <<client, limiter, requests, reqUrl, callStart, requestsAtCall, slotTaken,
                 httpAttempt, abortTimer, response, httpReturned, httpCalls, httpNow>>

BodyChunk ==
  /\ httpPc = "readingBody"
  /\ totalSize < response.bodyLength
  /\ \E size \in {1, response.bodyLength - totalSize} :
       /\ bodyChunks + 1 >= MaxBodyChunks => size = response.bodyLength - totalSize
       /\ ReadChunk(size)
  /\ UNCHANGED httpFrame

\* The read loop sees done: the response is rebuilt from the chunks
BodyDone ==
  /\ httpPc = "readingBody"
  /\ totalSize = response.bodyLength
  /\ readerLocked' = FALSE
  /\ HttpReturn(response.status, totalSize, TRUE)
  /\ UNCHANGED <<client, limiter, requests, reqUrl, callStart, requestsAtCall, slotTaken,
                 httpAttempt, abortTimer, response, totalSize, bodyChunks, httpCalls, httpNow>>
  /\ UNCHANGED httpFrame

\* reader.read() rejects: the connection broke while the body was read
BodyFails ==
  /\ httpPc = "readingBody"
  /\ readerLocked' = FALSE
  /\ HttpCatch("network", BodyReadFailed)
  /\ UNCHANGED <<client, limiter, requests, reqUrl, callStart, requestsAtCall, slotTaken,
                 httpAttempt, abortTimer, response, totalSize, bodyChunks, httpReturned,
                 httpCalls, httpNow>>
  /\ UNCHANGED httpFrame

\* safeReadResponse on a status >= 400: response.text() takes the whole body,
\* or fails; then line 114 throws
safeReadResponse(readOk) ==
  /\ totalSize' = IF readOk THEN response.bodyLength ELSE totalSize
  /\ HttpCatch("http", ErrHttp(response.status,
                               IF readOk THEN SafeReadText(response.bodyLength)
                               ELSE UNABLE_TO_READ))
  /\ UNCHANGED <<client, limiter, requests, reqUrl, callStart, requestsAtCall, slotTaken,
                 httpAttempt, abortTimer, response, bodyChunks, readerLocked, httpReturned,
                 httpCalls, httpNow>>

ErrorBodyRead ==
  /\ httpPc = "readingError"
  /\ \E readOk \in BOOLEAN : safeReadResponse(readOk)
  /\ UNCHANGED httpFrame

\* The backoff delay is over: the loop goes on with the next attempt
HttpWake ==
  /\ httpPc = "backoff"
  /\ httpNow >= wakeAt
  /\ StartAttempt(httpAttempt + 1, attempts)
  /\ UNCHANGED <<client, limiter, requests, reqUrl, callStart, requestsAtCall, slotTaken,
                 readerLocked, wakeAt, httpThrown, httpReturned, httpCalls, httpNow>>
  /\ UNCHANGED httpFrame

HttpDeadlines ==
  {abortTimer.at : x \in {1 : y \in {<<httpPc, abortTimer.state>>} \cap {<<"fetching", "armed">>}}}
    \cup {wakeAt : x \in {1 : y \in {httpPc} \cap {"backoff"}}}

\* Time passes: up to the next due timer when one is pending, by a step otherwise
HttpTick ==
  /\ client.built
  /\ \E t \in (IF HttpDeadlines = {} THEN {httpNow + HttpTimeStep} ELSE HttpDeadlines) :
       /\ t > httpNow
       /\ \A d \in HttpDeadlines : t <= d
       /\ HttpDeadlines = {} => t <= MaxHttpTime
       /\ httpNow' = t
  /\ UNCHANGED <<client, limiter, requests, httpPc, reqUrl, callStart, requestsAtCall,
                 slotTaken, httpAttempt, attempts, abortTimer, response, totalSize, bodyChunks,
                 readerLocked, wakeAt, httpThrown, httpReturned, httpCalls>>
  /\ UNCHANGED httpFrame

HttpNext ==
  \/ NewClient
  \/ HttpRequest
  \/ FetchResponds
  \/ FetchFails
  \/ OnAbortTimeout
  \/ BodyChunk
  \/ BodyDone
  \/ BodyFails
  \/ ErrorBodyRead
  \/ HttpWake
  \/ HttpTick

(***************************************************************************)
(* Properties of SecureHttpClient.request                                  *)
(***************************************************************************)
\* The timestamps of the url's host that were inside the window when the
\* current call was made
RecentAtCall ==
  LET stamps == requestsAtCall[reqUrl.hostname]
  IN {k \in 1..Len(stamps) : stamps[k] > callStart - limiter.windowMs}

QuotaLeftAtCall == Cardinality(RecentAtCall) < limiter.maxRequests

\* The wait the refusal reports, in seconds rounded up
WaitAtCall ==
  LET stamps == requestsAtCall[reqUrl.hostname]
      oldest == Min({stamps[k] : k \in RecentAtCall})
      ms == oldest + limiter.windowMs - callStart
  IN IF ms % 1000 = 0 THEN ms \div 1000 ELSE ms \div 1000 + 1

\* C7: request() calls fetch only when validateUrl accepted the url and the rate
\* limiter had quota left and recorded the call; a url that fails validation
\* makes it throw without a fetch and without touching the limiter; a refusal
\* by the limiter makes it throw without a fetch, without a backoff, with the
\* message 'Rate limit exceeded. Try again in N seconds' giving the wait.
C7_FetchOnlyAfterUrlAndRateChecks ==
  httpCalls > 0 =>
    /\ attempts # <<>> =>
         /\ validateUrl(reqUrl).ok
         /\ QuotaLeftAtCall
         /\ slotTaken
         /\ Len(requests[reqUrl.hostname]) = Cardinality(RecentAtCall) + 1
         /\ requests[reqUrl.hostname][Len(requests[reqUrl.hostname])] = callStart
    /\ ~validateUrl(reqUrl).ok =>
         /\ attempts = <<>>
         /\ requests = requestsAtCall
         /\ httpPc = "threw"
         /\ httpThrown = validateUrl(reqUrl).error
    /\ (validateUrl(reqUrl).ok /\ ~QuotaLeftAtCall) =>
         /\ attempts = <<>>
         /\ httpPc = "threw"
         /\ wakeAt = 0
         /\ ~slotTaken
         /\ Len(requests[reqUrl.hostname]) = Cardinality(RecentAtCall)
         /\ httpThrown.message =
              <<"R", "a", "t", "e", " ", "l", "i", "m", "i", "t", " ", "e", "x", "c", "e", "e", "d", "e", "d", ".", " ", "T", "r", "y", " ", "a", "g", "a", "i", "n", " ", "i", "n", " ">> \o NumToString(WaitAtCall) \o <<" ", "s", "e", "c", "o", "n", "d", "s">>

\* A call refused by the limiter, and before it a call that was let through
C7_Witness ==
  /\ httpCalls = 2
  /\ validateUrl(reqUrl).ok
  /\ ~QuotaLeftAtCall
  /\ httpPc = "threw"
  /\ attempts = <<>>

TerminalAttemptKinds == {"abort", "sizeHeader", "sizeBody"}

\* C8: a call makes at most maxRetries attempts, one after the other, attempt
\* k+1 starting 1000 * 2^(k-1) ms after attempt k failed; an attempt that was
\* aborted by its timeout or that hit the size limit is the last one, and its
\* error is what request() throws; when request() throws a whitelist or
\* rate-limit error, it has made no attempt.
C8_BoundedSequentialRetries ==
  /\ Len(attempts) <= client.maxRetries
  /\ (/\ httpPc = "threw"
      /\ \/ Includes(httpThrown.message, <<"R", "a", "t", "e", " ", "l", "i", "m", "i", "t">>)
         \/ Includes(httpThrown.message, <<"n", "o", "t", " ", "i", "n", " ", "w", "h", "i", "t", "e", "l", "i", "s", "t">>))
       => attempts = <<>>
  /\ \A k \in 1..Len(attempts) :
       /\ k < Len(attempts) =>
            /\ attempts[k].kind \in {"network", "http"}
            /\ attempts[k].end >= attempts[k].start
            /\ attempts[k + 1].start = attempts[k].end + 1000 * 2 ^ (k - 1)
       /\ attempts[k].kind \in TerminalAttemptKinds =>
            /\ k = Len(attempts)
            /\ httpPc = "threw"
            /\ \/ httpThrown.name = "AbortError"
               \/ Includes(httpThrown.message, TOO_LARGE)

\* All maxRetries attempts were made, the third one 2000 ms after the second failed
C8_Witness ==
  /\ client.maxRetries = 3
  /\ Len(attempts) = 3
  /\ attempts[3].start = attempts[2].end + 2000
  /\ attempts[3].kind = "network"
  /\ httpPc = "threw"
  /\ httpThrown = FetchFailed

\* C9: whatever the status, request() reads no more than maxResponseSize bytes
\* of a response without failing with a size error and releasing the reader,
\* reads nothing of a response whose Content-Length exceeds the limit, and
\* returns no body larger than maxResponseSize.
C9_ResponseSizeCapped ==
  /\ httpPc = "returned" => httpReturned.bodySize <= client.maxResponseSize
  /\ totalSize > client.maxResponseSize =>
       /\ httpPc = "threw"
       /\ Includes(httpThrown.message, TOO_LARGE)
       /\ ~readerLocked
  /\ response.contentLength > client.maxResponseSize =>
       /\ totalSize = 0
       /\ httpPc = "threw"
       /\ Includes(httpThrown.message, TOO_LARGE)

\* C10: while an attempt is in progress, waiting for the response or reading its
\* body, no more than the configured timeout has passed since it started.
C10_AttemptBoundedByTimeout ==
  httpPc \in {"fetching", "readingBody", "readingError"} =>
    httpNow <= attempts[Len(attempts)].start + client.timeout

(***************************************************************************)
(* requestOptions of SecureHttpClient.request (secure-http.js, 69-91)       *)
(***************************************************************************)
\* A headers object: a function from header names to values. Names are
\* property keys, compared exactly as JavaScript compares them.
NoHeaders == [name \in {} |-> ""]

\* { ...a, ...b }: the properties of b win
Spread(a, b) ==
  [name \in DOMAIN a \cup DOMAIN b |-> IF name \in DOMAIN b THEN b[name] ELSE a[name]]

\* delete headers[name]
Delete(headers, name) == [n \in DOMAIN headers \ {name} |-> headers[n]]

USER_AGENT == <<"U", "s", "e", "r", "-", "A", "g", "e", "n", "t">>

ACCEPT == <<"A", "c", "c", "e", "p", "t">>

ACCEPT_ENCODING == <<"A", "c", "c", "e", "p", "t", "-", "E", "n", "c", "o", "d", "i", "n", "g">>

CACHE_CONTROL == <<"C", "a", "c", "h", "e", "-", "C", "o", "n", "t", "r", "o", "l">>

CONNECTION == <<"C", "o", "n", "n", "e", "c", "t", "i", "o", "n">>

AUTHORIZATION == <<"A", "u", "t", "h", "o", "r", "i", "z", "a", "t", "i", "o", "n">>

COOKIE == <<"C", "o", "o", "k", "i", "e">>

X_FORWARDED_FOR == <<"X", "-", "F", "o", "r", "w", "a", "r", "d", "e", "d", "-", "F", "o", "r">>

X_REAL_IP == <<"X", "-", "R", "e", "a", "l", "-", "I", "P">>

\* The literal of lines 73-77, with this.userAgent at its default
DefaultHeaders ==
  [name \in {USER_AGENT, ACCEPT, ACCEPT_ENCODING, CACHE_CONTROL, CONNECTION} |->
     IF name = USER_AGENT THEN "@oas/deset/1.0.0"
     ELSE IF name = ACCEPT THEN "application/json"
     ELSE IF name = ACCEPT_ENCODING THEN "gzip, deflate"
     ELSE IF name = CACHE_CONTROL THEN "no-cache"
     ELSE "close"]

\* The object literal of lines 70-83: the headers property built from the
\* defaults and options.headers, then ...options, whose own headers property,
\* when it has one, replaces the one just built
RequestOptionsHeaders(options) ==
  LET built == Spread(DefaultHeaders, IF options.hasHeaders THEN options.headers ELSE NoHeaders)
  IN IF options.hasHeaders THEN options.headers ELSE built

\* Lines 86-89: the four delete statements
StripDangerous(headers) ==
  Delete(Delete(Delete(Delete(headers, AUTHORIZATION), COOKIE), X_FORWARDED_FOR), X_REAL_IP)

\* The headers fetch() is called with
requestHeaders(options) == StripDangerous(RequestOptionsHeaders(options))

MaxHeaderCalls == 1

\* Header names a caller may supply, in several spellings
CallerHeaderNames ==
  { AUTHORIZATION, <<"a", "u", "t", "h", "o", "r", "i", "z", "a", "t", "i", "o", "n">>, COOKIE, <<"C", "O", "O", "K", "I", "E">>,
    X_FORWARDED_FOR, <<"x", "-", "r", "e", "a", "l", "-", "i", "p">>, ACCEPT, <<"X", "-", "C", "u", "s", "t", "o", "m">> }

NoOptions == [hasHeaders |-> FALSE, headers |-> NoHeaders]

\* options objects: without a headers property, or with one holding any choice
\* of the names above
SampleRequestOptions ==
  {NoOptions} \cup
  { [hasHeaders |-> TRUE, headers |-> [name \in names |-> "caller"]] :
      names \in SUBSET CallerHeaderNames }

HeadersInit ==
  /\ callOptions = NoOptions
  /\ sentHeaders = NoHeaders
  /\ headerCalls = 0

\* One attempt of request(url, options) builds requestOptions and calls fetch
BuildRequestOptions ==
  /\ headerCalls < MaxHeaderCalls
  /\ \E options \in SampleRequestOptions :
       /\ callOptions' = options
       /\ sentHeaders' = requestHeaders(options)
  /\ headerCalls' = headerCalls + 1
  /\ UNCHANGED headersFrame

HeadersNext ==
  \/ BuildRequestOptions

\* The four header names the client must never forward, in lower case
ForbiddenHeaderNames ==
  { ToLowerCase(AUTHORIZATION), ToLowerCase(COOKIE), ToLowerCase(X_FORWARDED_FOR),
    ToLowerCase(X_REAL_IP) }

\* C11: the headers sent hold every header of the client's minimal set, and no
\* header whose name, letter case aside, is Authorization, Cookie,
\* X-Forwarded-For or X-Real-IP.
C11_MinimalHeadersNoDangerous ==
  headerCalls > 0 =>
    /\ DOMAIN DefaultHeaders \subseteq DOMAIN sentHeaders
    /\ \A name \in DOMAIN sentHeaders : ToLowerCase(name) \notin ForbiddenHeaderNames

(***************************************************************************)
(* RateLimiter used on its own (input-sanitizer.js, lines 318-371)         *)
(***************************************************************************)
MaxLimiterCalls == 5

MaxLimiterTime == 2000

LimiterTimeStep == 500

DEFAULT_MAX_REQUESTS == 10

DEFAULT_WINDOW_MS == 60000

LimiterIds == {"test1", "test2"}

\* Constructor arguments; -1 stands for an argument left out
SampleLimiterArgs == {<<3, 1000>>, <<1, 1000>>, <<2, 1500>>, <<-1, -1>>}

LimiterInit ==
  /\ rl = [built |-> FALSE, maxRequests |-> 0, windowMs |-> 0]
  /\ rlRequests = [id \in LimiterIds |-> <<>>]
  /\ rlBefore = [id \in LimiterIds |-> <<>>]
  /\ rlLog = <<>>
  /\ rlNow = 0

\* constructor(maxRequests = 10, windowMs = 60000)
RateLimiter(maxRequests, windowMs) ==
  /\ rl' = [built |-> TRUE,
            maxRequests |-> IF maxRequests = -1 THEN DEFAULT_MAX_REQUESTS ELSE maxRequests,
            windowMs |-> IF windowMs = -1 THEN DEFAULT_WINDOW_MS ELSE windowMs]
  /\ rlRequests' = [id \in LimiterIds |-> <<>>]
  /\ UNCHANGED <<rlBefore, rlLog, rlNow>>

NewLimiter ==
  /\ ~rl.built
  /\ \E args \in SampleLimiterArgs : RateLimiter(args[1], args[2])
  /\ UNCHANGED limiterFrame

\* One call of rateLimiter.isAllowed(identifier): it has no suspension point,
\* so the calls of all callers happen one after the other
LimiterCall ==
  /\ rl.built
  /\ Len(rlLog) < MaxLimiterCalls
  /\ \E identifier \in LimiterIds :
       LET check == isAllowed(rlRequests, rl, identifier, rlNow)
       IN /\ rlRequests' = check.requests
          /\ rlLog' = Append(rlLog, [id |-> identifier, time |-> rlNow,
                                     allowed |-> check.allowed])
  /\ rlBefore' = rlRequests
  /\ UNCHANGED <<rl, rlNow>>
  /\ UNCHANGED limiterFrame

LimiterTick ==
  /\ rl.built
  /\ rlNow + LimiterTimeStep <= MaxLimiterTime
  /\ rlNow' = rlNow + LimiterTimeStep
  /\ UNCHANGED <<rl, rlRequests, rlBefore, rlLog>>
  /\ UNCHANGED limiterFrame

LimiterNext ==
  \/ NewLimiter
  \/ LimiterCall
  \/ LimiterTick

(***************************************************************************)
(* Properties of RateLimiter                                               *)
(***************************************************************************)
\* The calls made for one identifier, in order
CallsFor(id) == SelectSeq(rlLog, LAMBDA call : call.id = id)

\* The accepted calls for the identifier whose timestamp lies in (from, to],
\* as positions of the log
AcceptedIn(id, from, to) ==
  {k \in 1..Len(rlLog) : /\ rlLog[k].id = id
                         /\ rlLog[k].allowed
                         /\ rlLog[k].time > from
                         /\ rlLog[k].time <= to}

\* The accepted calls for the identifier made before call k of the log that
\* lie in the window of call k
CountedAt(k) ==
  {j \in 1..(k - 1) : /\ rlLog[j].id = rlLog[k].id
                      /\ rlLog[j].allowed
                      /\ rlLog[j].time > rlLog[k].time - rl.windowMs}

\* C12: on a fresh RateLimiter(n, w) with n >= 1, of the calls made for one
\* identifier less than w ms after the first of them, the first n return true
\* and call n+1 returns false.
C12_FirstNAllowedNextRefused ==
  rl.maxRequests >= 1 =>
    \A id \in LimiterIds :
      LET calls == CallsFor(id)
      IN \A j \in 1..Len(calls) :
           calls[j].time - calls[1].time < rl.windowMs =>
             /\ j <= rl.maxRequests => calls[j].allowed
             /\ j = rl.maxRequests + 1 => ~calls[j].allowed

\* RateLimiter(3, 1000) called four times in a row with one identifier
C12_Witness ==
  /\ rl.maxRequests = 3 /\ rl.windowMs = 1000
  /\ Len(rlLog) = 4
  /\ \A k \in 1..4 : rlLog[k].id = "test1" /\ rlLog[k].time = 0 /\ rlLog[k].allowed = (k < 4)

\* C13: when a call for an identifier was refused, the next call for that
\* identifier returns true if it is made w ms or more after the oldest
\* accepted call that counted against the refused one.
C13_WindowSlides ==
  rl.maxRequests >= 1 =>
    \A k \in 1..Len(rlLog) : \A m \in (k + 1)..Len(rlLog) :
      (/\ ~rlLog[k].allowed
       /\ rlLog[m].id = rlLog[k].id
       /\ \A j \in (k + 1)..(m - 1) : rlLog[j].id # rlLog[k].id
       /\ rlLog[m].time >= Min({rlLog[j].time : j \in CountedAt(k)}) + rl.windowMs)
        => rlLog[m].allowed

\* A refused call followed, exactly w ms after the first accepted one, by an
\* accepted call
C13_Witness ==
  /\ rl.maxRequests = 3 /\ rl.windowMs = 1000
  /\ Len(rlLog) = 5
  /\ \A k \in 1..5 : rlLog[k].id = "test1"
  /\ ~rlLog[4].allowed /\ rlLog[4].time = 500
  /\ rlLog[1].time = 0
  /\ rlLog[5].allowed /\ rlLog[5].time = 1000

\* C14: for every identifier and every instant t, at most maxRequests calls
\* returned true with a timestamp in the window of length windowMs ending at t
\* (the count is largest when t is the timestamp of an accepted call).
C14_AtMostMaxInAnyWindow ==
  \A id \in LimiterIds : \A k \in 1..Len(rlLog) :
    Cardinality(AcceptedIn(id, rlLog[k].time - rl.windowMs, rlLog[k].time))
      <= rl.maxRequests

\* The quota was used up inside one window and a further call was refused
C14_Witness ==
  /\ rl.maxRequests = 2
  /\ \E k \in 1..Len(rlLog) :
       /\ ~rlLog[k].allowed
       /\ Cardinality(AcceptedIn(rlLog[k].id, rlLog[k].time - rl.windowMs, rlLog[k].time)) = 2
       /\ \E j \in 1..(k - 1) : rlLog[j].time < rlLog[k].time

\* The latest call
LastCall == rlLog[Len(rlLog)]

\* timestamps later than from, written without the limiter's own filter
LaterThan(timestamps, from) == SelectSeq(timestamps, LAMBDA ts : ~(ts <= from))

\* C15: every call is answered from the accepted calls of its own identifier
\* inside its window alone, and a call leaves the timestamps counted for every
\* other identifier as they were.
C15_IndependentQuotas ==
  /\ \A k \in 1..Len(rlLog) :
       rlLog[k].allowed = (Cardinality(CountedAt(k)) < rl.maxRequests)
  /\ rlLog # <<>> =>
       \A id \in LimiterIds \ {LastCall.id} :
         LaterThan(rlRequests[id], LastCall.time - rl.windowMs)
           = LaterThan(rlBefore[id], LastCall.time - rl.windowMs)

\* One identifier is refused, and right after it the other one is let through
C15_Witness ==
  /\ Len(rlLog) >= 2
  /\ ~rlLog[Len(rlLog) - 1].allowed
  /\ rlLog[Len(rlLog) - 1].id = "test1"
  /\ LastCall.id = "test2"
  /\ LastCall.allowed
  /\ LastCall.time = rlLog[Len(rlLog) - 1].time

\* C16 as stated: after a refused call the timestamps stored for every
\* identifier are those stored before it, less the ones older than
\* now - windowMs.
C16_RefusalKeepsAllNotOlder ==
  (rlLog # <<>> /\ ~LastCall.allowed) =>
    \A id \in LimiterIds :
      rlRequests[id] =
        SelectSeq(rlBefore[id], LAMBDA ts : ~(ts < LastCall.time - rl.windowMs))

\* C16, amended: after a refused call the timestamps stored for every
\* identifier are those stored before it that are later than now - windowMs
\* (a timestamp exactly windowMs old is pruned too); nothing was added.
C16_RefusalDoesNotMutate ==
  (rlLog # <<>> /\ ~LastCall.allowed) =>
    \A id \in LimiterIds :
      rlRequests[id] = LaterThan(rlBefore[id], LastCall.time - rl.windowMs)

\* A refused call that pruned an expired timestamp of the other identifier
C16_Witness ==
  /\ rlLog # <<>>
  /\ ~LastCall.allowed
  /\ \E id \in LimiterIds \ {LastCall.id} :
       rlBefore[id] # <<>> /\ rlRequests[id] = <<>>

(***************************************************************************)
(* SecureConfig (config-encryption.js): the key and encrypt / decrypt      *)
(***************************************************************************)
MaxCryptoCalls == 3

ALGORITHM == "aes-256-gcm"

KEY_LENGTH == 32

\* A key: who drew it, how many bytes, whether it went through scrypt
NoKey == [id |-> "none", length |-> 0, derived |-> FALSE]

RandomKey(id) == [id |-> id, length |-> KEY_LENGTH, derived |-> FALSE]

\* crypto.randomBytes(KEY_LENGTH) and crypto.randomBytes(IV_LENGTH): any of a
\* few values; two IVs may or may not differ
RandomKeys == {RandomKey("k1"), RandomKey("k2")}

RandomIvs == {"iv1", "iv2"}

\* 256 random bits: a key that none of the known keys equals
FreshKeys(known) == RandomKeys \ known

\* A key file that was put in place by hand and does not hold 32 bytes
PassphraseKey == [id |-> "passphrase", length |-> 8, derived |-> FALSE]

\* Lines 50-52 and 87-89: a key of another length goes through scryptSync
EffectiveKey(key) ==
  IF key.length = KEY_LENGTH THEN key
  ELSE [id |-> key.id, length |-> KEY_LENGTH, derived |-> TRUE]

\* UTF-8 as cipher.update(plaintext, 'utf8', ...) and decipher.update(..., 'utf8')
\* apply it. Characters are named; U+D800 is an unpaired surrogate, which has
\* no UTF-8 form and is written as the replacement character U+FFFD.
Utf8EncodeChar(char) ==
  IF char = "a" THEN <<97>>
  ELSE IF char = "U+00E9" THEN <<195, 169>>
  ELSE <<239, 191, 189>>

RECURSIVE Utf8Encode(_)
Utf8Encode(str) ==
  IF str = <<>> THEN <<>> ELSE Utf8EncodeChar(Head(str)) \o Utf8Encode(Tail(str))

\* A decoder that does not know two-byte sequences (mutant)
RECURSIVE Utf8DecodeAsciiOnly(_)
Utf8DecodeAsciiOnly(bytes) ==
  IF bytes = <<>> THEN <<>>
  ELSE IF bytes[1] = 97 THEN <<"a">> \o Utf8DecodeAsciiOnly(Tail(bytes))
  ELSE <<"U+FFFD">> \o Utf8DecodeAsciiOnly(Tail(bytes))

RECURSIVE Utf8Decode(_)
Utf8Decode(bytes) ==
  IF bytes = <<>> THEN <<>>
  ELSE IF bytes[1] = 97 THEN <<"a">> \o Utf8Decode(Tail(bytes))
  ELSE IF Len(bytes) >= 2 /\ SubSeq(bytes, 1, 2) = <<195, 169>>
  THEN <<"U+00E9">> \o Utf8Decode(SubSeq(bytes, 3, Len(bytes)))
  ELSE IF Len(bytes) >= 3 /\ SubSeq(bytes, 1, 3) = <<239, 191, 189>>
  THEN <<"U+FFFD">> \o Utf8Decode(SubSeq(bytes, 4, Len(bytes)))
  ELSE <<"U+FFFD">> \o Utf8Decode(Tail(bytes))

\* aes-256-cbc of the bytes under a key and an iv, as the hex text of line
\* 57-58. The ciphertext is kept symbolic: it decrypts to the bytes under that
\* key and iv as long as it is intact.
Ciphertext(key, iv, bytes) == [key |-> key, iv |-> iv, bytes |-> bytes, intact |-> TRUE]

\* Line 61: the first 32 hex digits of the SHA-256 of the ciphertext
TagOf(encrypted) == [sha256 |-> encrypted, altered |-> FALSE]

Returned(value) == [kind |-> "return", value |-> value, message |-> ""]

Thrown(message) == [kind |-> "throw", value |-> <<>>, message |-> message]

NoOutcome == [kind |-> "none", value |-> <<>>, message |-> ""]

\* encrypt(plaintext) with the iv that randomBytes drew
encrypt(key, iv, plaintext) ==
  IF key = NoKey THEN Thrown("Encryption key not initialized")
  ELSE LET encrypted == Ciphertext(EffectiveKey(key), iv, Utf8Encode(plaintext))
       IN Returned([encrypted |-> encrypted, iv |-> iv, tag |-> TagOf(encrypted),
                    algorithm |-> ALGORITHM])

\* What decipher.update and decipher.final give for a ciphertext that is not
\* the one made under this key and iv: the padding check of final() fails, or
\* it happens to pass and bytes that are not the plaintext come back
BadDecryptOutcomes ==
  {Thrown("bad decrypt"), Returned(<<"U+FFFD", "U+FFFD">>)}

\* decrypt(encryptedData): the outcomes it can have
decrypt(key, encryptedData) ==
  IF key = NoKey THEN {Thrown("Encryption key not initialized")}
  ELSE IF encryptedData.algorithm # "" /\ encryptedData.algorithm # ALGORITHM
  THEN {Thrown("Unsupported encryption algorithm")}
  ELSE IF /\ encryptedData.encrypted.intact
          /\ encryptedData.encrypted.key = EffectiveKey(key)
          /\ encryptedData.encrypted.iv = encryptedData.iv
  THEN {Returned(Utf8Decode(encryptedData.encrypted.bytes))}
  ELSE BadDecryptOutcomes

\* The strings handed to encryptValue: empty, with a one-byte and a two-byte
\* character, and with an unpaired surrogate
SamplePlaintexts == {<<>>, <<"U+00E9", "a">>, <<"a", "U+D800">>}

WellFormed(str) == \A i \in 1..Len(str) : str[i] # "U+D800"

\* What a caller can hand to decryptValue once blob was produced: the blob
\* itself, and the blob with one field changed or removed
AlteredTag(blob) == [blob EXCEPT !.tag.altered = TRUE]

AlteredCiphertext(blob) == [blob EXCEPT !.encrypted.intact = FALSE]

UnderForeignKey(blob) ==
  LET encrypted == [blob.encrypted EXCEPT !.key = RandomKey("foreign")]
  IN [blob EXCEPT !.encrypted = encrypted, !.tag = TagOf(encrypted)]

WithAlgorithm(blob, algorithm) == [blob EXCEPT !.algorithm = algorithm]

Variants(blob) ==
  {blob, AlteredTag(blob), AlteredCiphertext(blob), UnderForeignKey(blob),
   WithAlgorithm(blob, ""), WithAlgorithm(blob, "aes-256-cbc")}

\* Calls can overlap: each await hands control to whatever else is pending
Callers == {1, 2}

\* No blob: the argument slot of a call that is not a decryptValue call
NoBlob ==
  [encrypted |-> Ciphertext(NoKey, "", <<>>), iv |-> "",
   tag |-> TagOf(Ciphertext(NoKey, "", <<>>)), algorithm |-> ""]

Idle == [pc |-> "idle", op |-> "", value |-> <<>>, encryptedData |-> NoBlob,
         generated |-> NoKey]

CryptoInit ==
  /\ keyFile = NoKey
  /\ encryptionKey = NoKey
  /\ callers = [c \in Callers |-> Idle]
  /\ produced = {}
  /\ lastDecrypt = [called |-> FALSE, blob |-> NoBlob, key |-> NoKey, outcome |-> NoOutcome]
  /\ keyLog = <<>>
  /\ cryptoCalls = 0

\* Somebody puts a key file of their own at keyPath before the first use
InstallKeyFile ==
  /\ cryptoCalls = 0
  /\ keyFile = NoKey
  /\ keyFile' = PassphraseKey
  /\ UNCHANGED <<encryptionKey, callers, produced, lastDecrypt, keyLog, cryptoCalls>>
  /\ UNCHANGED cryptoFrame

\* encryptValue(value) / decryptValue(encryptedData) up to the first await:
\* initializeKey() is entered and waits for fileExists(keyPath)
Call(c, op, value, encryptedData) ==
  /\ cryptoCalls < MaxCryptoCalls
  /\ callers[c].pc = "idle"
  /\ callers' = [callers EXCEPT ![c] = [pc |-> "fileExists", op |-> op, value |-> value,
                                       encryptedData |-> encryptedData,
                                       generated |-> NoKey]]
  /\ cryptoCalls' = cryptoCalls + 1
  /\ UNCHANGED <<keyFile, encryptionKey, produced, lastDecrypt, keyLog>>
  /\ UNCHANGED cryptoFrame

encryptValue ==
  \E c \in Callers, value \in SamplePlaintexts : Call(c, "encrypt", value, NoBlob)

decryptValue ==
  \E c \in Callers, made \in produced :
    \E encryptedData \in Variants(made.blob) : Call(c, "decrypt", <<>>, encryptedData)

KeyEvent(event, key) ==
  [event |-> event, key |-> key, fileExisted |-> keyFile # NoKey,
   hadKey |-> encryptionKey]

\* Lines 180 and 188: after initializeKey() returned, encrypt / decrypt run
\* with the key that is in memory at that moment
Resume(c, key) ==
  /\ callers' = [callers EXCEPT ![c] = Idle]
  /\ IF callers[c].op = "encrypt"
     THEN /\ \E iv \in RandomIvs :
               produced' = produced \cup
                 {[plaintext |-> callers[c].value, key |-> key,
                   blob |-> encrypt(key, iv, callers[c].value).value]}
          /\ UNCHANGED lastDecrypt
     ELSE /\ \E outcome \in decrypt(key, callers[c].encryptedData) :
               lastDecrypt' = [called |-> TRUE, blob |-> callers[c].encryptedData,
                               key |-> key, outcome |-> outcome]
          /\ UNCHANGED produced

\* Lines 31-33: fileExists answered yes; readFile is started
FileExists(c) ==
  /\ callers[c].pc = "fileExists"
  /\ keyFile # NoKey
  /\ callers' = [callers EXCEPT ![c].pc = "readFile"]
  /\ UNCHANGED <<keyFile, encryptionKey, produced, lastDecrypt, keyLog, cryptoCalls>>
  /\ UNCHANGED cryptoFrame

\* Lines 32-33, 180 / 188: readFile delivers the bytes, they become the key in
\* memory, initializeKey returns and the call goes on
ReadKey(c) ==
  /\ callers[c].pc = "readFile"
  /\ encryptionKey' = keyFile
  /\ keyLog' = Append(keyLog, KeyEvent("load", keyFile))
  /\ Resume(c, keyFile)
  /\ UNCHANGED <<keyFile, cryptoCalls>>
  /\ UNCHANGED cryptoFrame

\* Lines 34-37: fileExists answered no; a new key is drawn and put in memory,
\* writeFile is started
GenerateKey(c) ==
  /\ callers[c].pc = "fileExists"
  /\ keyFile = NoKey
  /\ \E key \in FreshKeys({encryptionKey}) :
       /\ encryptionKey' = key
       /\ keyLog' = Append(keyLog, KeyEvent("generate", key))
       /\ callers' = [callers EXCEPT ![c].pc = "writeFile", ![c].generated = key]
  /\ UNCHANGED <<keyFile, produced, lastDecrypt, cryptoCalls>>
  /\ UNCHANGED cryptoFrame

\* Line 37, 180 / 188: writeFile puts the key this call drew at keyPath,
\* initializeKey returns and the call goes on with the key in memory
WriteKey(c) ==
  /\ callers[c].pc = "writeFile"
  /\ keyFile' = callers[c].generated
  /\ keyLog' = Append(keyLog, KeyEvent("write", callers[c].generated))
  /\ Resume(c, encryptionKey)
  /\ UNCHANGED <<encryptionKey, cryptoCalls>>
  /\ UNCHANGED cryptoFrame

FileExistsAnswers == \E c \in Callers : FileExists(c)

ReadFileAnswers == \E c \in Callers : ReadKey(c)

NoFileAnswers == \E c \in Callers : GenerateKey(c)

WriteFileAnswers == \E c \in Callers : WriteKey(c)

CryptoNext ==
  \/ InstallKeyFile
  \/ encryptValue
  \/ decryptValue
  \/ FileExistsAnswers
  \/ ReadFileAnswers
  \/ NoFileAnswers
  \/ WriteFileAnswers

(***************************************************************************)
(* Claims about encrypt / decrypt and the key                              *)
(***************************************************************************)
\* The latest decrypt call was handed exactly what an encrypt call returned
\* and ran under the key that encrypt call ran under
DecryptedWhatWasMade(made) ==
  /\ lastDecrypt.called
  /\ lastDecrypt.blob = made.blob
  /\ lastDecrypt.key = made.key

\* C17 as stated: for every plaintext string p, decrypt(encrypt(p)) returns p,
\* for each of the blobs that encrypt calls with different IVs produced.
C17_RoundTripEveryString ==
  \A made \in produced :
    /\ decrypt(made.key, made.blob) = {Returned(made.plaintext)}
    /\ DecryptedWhatWasMade(made) => lastDecrypt.outcome = Returned(made.plaintext)

\* C17 (amended): for every plaintext string p without unpaired surrogates,
\* decrypt(encrypt(p)) returns p under the key encrypt used, whatever IV each
\* encrypt call drew; two encryptions of the same p both decrypt to p.
C17_RoundTripWellFormed ==
  \A made \in produced :
    WellFormed(made.plaintext) =>
      /\ decrypt(made.key, made.blob) = {Returned(made.plaintext)}
      /\ DecryptedWhatWasMade(made) => lastDecrypt.outcome = Returned(made.plaintext)

\* The same two-byte-character string was encrypted twice under one key with
\* different IVs, and one of the two blobs was decrypted
C17_Witness ==
  \E one \in produced, other \in produced :
    /\ one.plaintext = <<"U+00E9", "a">>
    /\ other.plaintext = one.plaintext
    /\ other.key = one.key
    /\ other.blob.iv # one.blob.iv
    /\ DecryptedWhatWasMade(one)
    /\ lastDecrypt.outcome = Returned(one.plaintext)

\* The blob does not match what encrypt produced under the key decrypt runs with
Mismatched(blob, key) ==
  \/ ~ blob.encrypted.intact
  \/ blob.tag # TagOf(blob.encrypted)
  \/ blob.encrypted.key # EffectiveKey(key)

\* C18: a blob whose ciphertext or integrity tag was altered, or that was
\* encrypted under a different key, makes decrypt throw; it never returns a
\* plaintext.
C18_MismatchedBlobRejected ==
  (lastDecrypt.called /\ Mismatched(lastDecrypt.blob, lastDecrypt.key))
    => lastDecrypt.outcome.kind = "throw"

\* C19: a blob whose algorithm identifier is not the supported one, or that
\* has none, makes decrypt throw 'Unsupported encryption algorithm'.
C19_OnlySupportedAlgorithm ==
  (lastDecrypt.called /\ lastDecrypt.blob.algorithm # ALGORITHM)
    => lastDecrypt.outcome = Thrown("Unsupported encryption algorithm")

EventsOf(event) == {i \in 1..Len(keyLog) : keyLog[i].event = event}

\* C20: a key is generated and written only when there is no key file, an
\* existing key file is never overwritten, the key is loaded at most once,
\* and once a key is in memory no call replaces it by another one.
C20_KeyLifecycle ==
  /\ \A i \in EventsOf("write") : ~ keyLog[i].fileExisted
  /\ Cardinality(EventsOf("load")) <= 1
  /\ \A i \in 1..Len(keyLog) :
       keyLog[i].event \in {"load", "generate"} =>
         keyLog[i].hadKey \in {NoKey, keyLog[i].key}


Quiescent == \A c \in Callers : callers[c].pc = "idle"

\* C37: when the calls that went through initializeKey have all returned, also
\* calls that overlapped while there was no key file, the key in memory is the
\* key in the key file, and everything encrypted by this process is encrypted
\* under that key, so that it can be decrypted after the key is loaded from
\* the file again.
C37_KeyInMemoryIsKeyOnDisk ==
  (Quiescent /\ encryptionKey # NoKey) =>
    /\ encryptionKey = keyFile
    /\ \A made \in produced : made.key = keyFile
(***************************************************************************)
(* SecureConfig: storeSecureConfig, loadSecureConfig, rotateKey            *)
(***************************************************************************)
MaxConfigCalls == 3

\* JSON values: a string, an object with properties, or the object that
\* encrypt returns ({encrypted, iv, tag, algorithm}); JSON.stringify followed
\* by JSON.parse gives these values back as they are
NoProps == [k \in {} |-> 0]

JString(text) == [type |-> "string", text |-> text, props |-> NoProps, blob |-> NoBlob]

JObject(props) == [type |-> "object", text |-> <<>>, props |-> props, blob |-> NoBlob]

JBlob(blob) == [type |-> "object", text |-> <<>>, props |-> NoProps, blob |-> blob]

\* if (value): an empty string is falsy, every object is truthy
Truthy(value) == value.type = "object" \/ value.text # <<>>

\* value.encrypted as a condition: the property exists and is truthy
HasEncrypted(value) ==
  /\ value.type = "object"
  /\ \/ value.blob # NoBlob
     \/ "encrypted" \in DOMAIN value.props /\ Truthy(value.props["encrypted"])

\* Line 108
sensitiveFields == <<"tokens", "apiKeys", "secrets", "passwords">>

IsSensitive(field) == \E i \in 1..Len(sensitiveFields) : sensitiveFields[i] = field

\* Lines 112-121 for one truthy secureConfig[field]; ivs[name] is the IV
\* that the encrypt call for the leaf called name draws
EncryptField(key, ivs, field, value) ==
  IF value.type = "object"
  THEN JObject([k \in DOMAIN value.props |->
                  IF value.props[k].type = "string"
                  THEN JBlob(encrypt(key, ivs[k], value.props[k].text).value)
                  ELSE value.props[k]])
  ELSE JBlob(encrypt(key, ivs[field], value.text).value)

NoMeta == [present |-> FALSE, fields |-> <<>>, version |-> "", timestamp |-> 0]

NoFile == [exists |-> FALSE, props |-> NoProps, meta |-> NoMeta]

\* Lines 105-132: the document that storeSecureConfig writes
SecureConfigOf(key, ivs, config, timestamp) ==
  [exists |-> TRUE,
   props |-> [field \in DOMAIN config |->
                IF IsSensitive(field) /\ Truthy(config[field])
                THEN EncryptField(key, ivs, field, config[field])
                ELSE config[field]],
   meta |-> [present |-> TRUE,
             fields |-> SelectSeq(sensitiveFields,
                                  LAMBDA field : field \in DOMAIN config /\ Truthy(config[field])),
             version |-> "1.0.0",
             timestamp |-> timestamp]]

\* Lines 105-121 seen from the caller: secureConfig = { ...config } copies the
\* top level only, so secureConfig[field] is the object config[field], and
\* the assignments of line 116 are made in the caller's object; line 120
\* assigns in the copy
CallerConfigAfter(key, ivs, config) ==
  [field \in DOMAIN config |->
     IF IsSensitive(field) /\ Truthy(config[field]) /\ config[field].type = "object"
     THEN EncryptField(key, ivs, field, config[field])
     ELSE config[field]]

\* this.decrypt(value) from loadSecureConfig. An object that is not what
\* encrypt returned has no iv, and Buffer.from(undefined, 'hex') throws. For a
\* blob that does not fit the key, padOk says whether the padding check passed.
DecryptObject(key, value, padOk) ==
  IF value.blob = NoBlob THEN Thrown("The first argument must be of type string")
  ELSE LET possible == decrypt(key, value.blob)
       IN IF Cardinality(possible) = 1 THEN CHOOSE outcome \in possible : TRUE
          ELSE IF padOk THEN CHOOSE outcome \in possible : outcome.kind = "return"
          ELSE CHOOSE outcome \in possible : outcome.kind = "throw"

\* Lines 155-166 for one field named in _encrypted.fields: [outcome, value]
DecryptField(key, value, padOk) ==
  IF ~ Truthy(value) THEN [failed |-> FALSE, value |-> value]
  ELSE IF value.type = "object" /\ ~ HasEncrypted(value)
  THEN LET each == [k \in DOMAIN value.props |->
                      IF HasEncrypted(value.props[k])
                      THEN DecryptObject(key, value.props[k], padOk)
                      ELSE Returned(<<>>)]
       IN [failed |-> \E k \in DOMAIN each : each[k].kind = "throw",
           value |-> JObject([k \in DOMAIN value.props |->
                                IF HasEncrypted(value.props[k])
                                THEN JString(each[k].value)
                                ELSE value.props[k]])]
  ELSE IF HasEncrypted(value)
  THEN LET outcome == DecryptObject(key, value, padOk)
       IN [failed |-> outcome.kind = "throw", value |-> JString(outcome.value)]
  ELSE [failed |-> FALSE, value |-> value]

Loaded(props) == [kind |-> "return", props |-> props]

LoadedNull == [kind |-> "null", props |-> NoProps]

LoadThrew == [kind |-> "throw", props |-> NoProps]

NoLoad == [kind |-> "none", props |-> NoProps]

\* Lines 139-172 once the key is in memory
ConfigOf(key, file, padOk) ==
  IF ~ file.exists THEN LoadedNull
  ELSE IF ~ file.meta.present THEN Loaded(file.props)
  ELSE LET named == {file.meta.fields[i] : i \in 1..Len(file.meta.fields)}
           each == [field \in DOMAIN file.props |->
                      IF field \in named
                      THEN DecryptField(key, file.props[field], padOk)
                      ELSE [failed |-> FALSE, value |-> file.props[field]]]
       IN IF \E field \in DOMAIN each : each[field].failed THEN LoadThrew
          ELSE Loaded([field \in DOMAIN each |-> each[field].value])

\* The documents handed to storeSecureConfig: no sensitive field; a string;
\* an object of strings next to a string; a string two levels down; a key
\* named 'encrypted'; an empty string
SampleConfigs ==
  {[name |-> JString(<<"a">>)],
   [name |-> JString(<<"a">>), tokens |-> JString(<<"U+00E9", "a">>)],
   [tokens |-> JObject([github |-> JString(<<"a">>)]), secrets |-> JString(<<"a">>)],
   [tokens |-> JObject([github |-> JObject([pat |-> JString(<<"a">>)])])],
   [tokens |-> JObject([encrypted |-> JString(<<"a">>)])],
   [tokens |-> JString(<<>>), secrets |-> JString(<<"a">>)]}

\* One IV per encrypt call of a storeSecureConfig call, by the name of the leaf
SampleIvs == [{"tokens", "secrets", "github", "encrypted"} -> RandomIvs]

NoStore == [called |-> FALSE, config |-> NoProps, after |-> NoProps]

NoRotation == [pc |-> "idle", config |-> NoLoad, oldKey |-> NoKey]

Rotating == rotation.pc \in {"loaded", "renamed", "generated"}

ConfigInit ==
  /\ configFile = NoFile
  /\ keyBackup = NoKey
  /\ lastStored = NoStore
  /\ lastLoad = [called |-> FALSE, stored |-> NoStore, file |-> NoFile, outcome |-> NoLoad]
  /\ rotation = NoRotation
  /\ rotateLog = <<>>
  /\ configCalls = 0

\* initializeKey() run to its end with nothing else in between: [file, memory]
initializeKey(fresh) ==
  IF keyFile # NoKey THEN [file |-> keyFile, memory |-> keyFile]
  ELSE [file |-> fresh, memory |-> fresh]

ConfigCall ==
  /\ configCalls < MaxConfigCalls
  /\ ~ Rotating
  /\ configCalls' = configCalls + 1
  /\ UNCHANGED <<callers, produced, lastDecrypt, keyLog, cryptoCalls>>
  /\ UNCHANGED configFrame

\* A configuration file written by other means, without encryption metadata
WriteConfigFile ==
  /\ ConfigCall
  /\ \E config \in SampleConfigs :
       configFile' = [exists |-> TRUE, props |-> config, meta |-> NoMeta]
  /\ lastStored' = NoStore
  /\ rotation' = NoRotation
  /\ UNCHANGED <<keyFile, encryptionKey, keyBackup, lastLoad, rotateLog>>

\* storeSecureConfig(configPath, config), lines 102-133
Store(config) ==
  \E fresh \in FreshKeys({keyBackup}), ivs \in SampleIvs :
    LET key == initializeKey(fresh)
    IN /\ keyFile' = key.file
       /\ encryptionKey' = key.memory
       /\ configFile' = SecureConfigOf(key.memory, ivs, config, configCalls)
       /\ lastStored' = [called |-> TRUE, config |-> config,
                         after |-> CallerConfigAfter(key.memory, ivs, config)]

storeSecureConfig ==
  /\ ConfigCall
  /\ \E config \in SampleConfigs : Store(config)
  /\ rotation' = NoRotation
  /\ UNCHANGED <<keyBackup, lastLoad, rotateLog>>

\* loadSecureConfig(configPath), lines 138-173: [key, outcome]; without a
\* configuration file it returns before initializeKey()
Load(fresh, padOk) ==
  IF ~ configFile.exists
  THEN [key |-> [file |-> keyFile, memory |-> encryptionKey], outcome |-> LoadedNull]
  ELSE [key |-> initializeKey(fresh),
        outcome |-> ConfigOf(initializeKey(fresh).memory, configFile, padOk)]

loadSecureConfig ==
  /\ ConfigCall
  /\ \E fresh \in FreshKeys({keyBackup}), padOk \in BOOLEAN :
       LET load == Load(fresh, padOk)
       IN /\ keyFile' = load.key.file
          /\ encryptionKey' = load.key.memory
          /\ lastLoad' = [called |-> TRUE, stored |-> lastStored, file |-> configFile,
                          outcome |-> load.outcome]
  /\ rotation' = NoRotation
  /\ UNCHANGED <<configFile, keyBackup, lastStored, rotateLog>>

RotateFails == rotation' = [rotation EXCEPT !.pc = "failed"]

\* rotateKey, line 196: the configuration is loaded under the current key
RotateLoad ==
  /\ ConfigCall
  /\ \E fresh \in FreshKeys({keyBackup}), padOk \in BOOLEAN :
       LET load == Load(fresh, padOk)
       IN /\ keyFile' = load.key.file
          /\ encryptionKey' = load.key.memory
          /\ rotation' = [pc |-> IF load.outcome.kind = "throw" THEN "failed" ELSE "loaded",
                          config |-> load.outcome, oldKey |-> load.key.file]
  /\ rotateLog' = <<"load">>
  /\ UNCHANGED <<configFile, keyBackup, lastStored, lastLoad>>

\* A file system call of rotateKey can fail (no permission, disk full)
FileSystemFails == BOOLEAN

\* Lines 199-202: the key file is renamed to keyPath + '.old' (rename throws
\* when there is no key file, or for another reason) and the key in memory is
\* dropped
RotateRename ==
  /\ rotation.pc = "loaded"
  /\ \E fails \in FileSystemFails :
       IF keyFile = NoKey \/ fails
       THEN /\ RotateFails
            /\ UNCHANGED <<keyFile, encryptionKey, keyBackup>>
       ELSE /\ keyBackup' = keyFile
            /\ keyFile' = NoKey
            /\ encryptionKey' = NoKey
            /\ rotation' = [rotation EXCEPT !.pc = "renamed"]
  /\ rotateLog' = Append(rotateLog, "rename")
  /\ UNCHANGED <<configFile, lastStored, lastLoad, configCalls>>
  /\ UNCHANGED <<callers, produced, lastDecrypt, keyLog, cryptoCalls>>
  /\ UNCHANGED configFrame

\* Line 203: initializeKey() finds no key file and generates one; when its
\* writeFile fails, the key is in memory and not in the file
RotateInitializeKey ==
  /\ rotation.pc = "renamed"
  /\ \E fresh \in FreshKeys({keyBackup}), fails \in FileSystemFails :
       /\ encryptionKey' = initializeKey(fresh).memory
       /\ IF fails
          THEN /\ RotateFails
               /\ UNCHANGED keyFile
          ELSE /\ keyFile' = initializeKey(fresh).file
               /\ rotation' = [rotation EXCEPT !.pc = "generated"]
  /\ rotateLog' = Append(rotateLog, "initializeKey")
  /\ UNCHANGED <<configFile, keyBackup, lastStored, lastLoad, configCalls>>
  /\ UNCHANGED <<callers, produced, lastDecrypt, keyLog, cryptoCalls>>
  /\ UNCHANGED configFrame

\* Line 206: storeSecureConfig(configPath, config); with config = null it
\* throws at config[field], after initializeKey() and before writeFile; when
\* its writeFile fails, the file at configPath is the one it was
RotateStore ==
  /\ rotation.pc = "generated"
  /\ \E fails \in FileSystemFails :
       IF rotation.config.kind = "null" \/ fails
       THEN /\ RotateFails
            /\ UNCHANGED <<keyFile, encryptionKey, configFile, lastStored>>
       ELSE /\ Store(rotation.config.props)
            /\ rotation' = [rotation EXCEPT !.pc = "done"]
  /\ rotateLog' = Append(rotateLog, "store")
  /\ UNCHANGED <<keyBackup, lastLoad, configCalls>>
  /\ UNCHANGED <<callers, produced, lastDecrypt, keyLog, cryptoCalls>>
  /\ UNCHANGED configFrame

ConfigNext ==
  \/ InstallKeyFile
  \/ WriteConfigFile
  \/ storeSecureConfig
  \/ loadSecureConfig
  \/ RotateLoad
  \/ RotateRename
  \/ RotateInitializeKey
  \/ RotateStore

(***************************************************************************)
(* Claims about the stored configuration and the key rotation              *)
(***************************************************************************)
\* Every non-empty string at or below the value is replaced by what encrypt returns
RECURSIVE NoCleartextLeaf(_)
NoCleartextLeaf(value) ==
  IF value.type = "string" THEN value.text = <<>>
  ELSE value.blob # NoBlob \/ \A k \in DOMAIN value.props : NoCleartextLeaf(value.props[k])

IsBlobShaped(value) ==
  /\ value.blob # NoBlob
  /\ value.blob.algorithm = ALGORITHM
  /\ value.blob.tag = TagOf(value.blob.encrypted)
  /\ value.blob.iv = value.blob.encrypted.iv

\* The file at configPath is the one the latest storeSecureConfig call wrote
FileIsStored == lastStored.called /\ configFile.exists /\ configFile.meta.present

SensitivePresent(config) ==
  {field \in DOMAIN config : IsSensitive(field) /\ Truthy(config[field])}

\* C21: after storeSecureConfig no string under a sensitive top-level field
\* is in the file in cleartext, at any depth; every other field is stored as
\* it was given; the recorded field list names exactly the sensitive fields
\* the document has.
C21_NoCleartextSecretStored ==
  FileIsStored =>
    /\ DOMAIN configFile.props = DOMAIN lastStored.config
    /\ \A field \in DOMAIN lastStored.config :
         IF field \in SensitivePresent(lastStored.config)
         THEN NoCleartextLeaf(configFile.props[field])
         ELSE configFile.props[field] = lastStored.config[field]
    /\ {configFile.meta.fields[i] : i \in 1..Len(configFile.meta.fields)}
         = SensitivePresent(lastStored.config)

\* C22: loading a file that storeSecureConfig wrote, under the same key,
\* returns the document that was stored; a file without encryption metadata
\* is returned as it is.
C22_LoadInvertsStore ==
  lastLoad.called =>
    /\ (lastLoad.stored.called /\ lastLoad.file.meta.present)
         => lastLoad.outcome = Loaded(lastLoad.stored.config)
    /\ (lastLoad.file.exists /\ ~ lastLoad.file.meta.present)
         => lastLoad.outcome = Loaded(lastLoad.file.props)

RotateSteps == <<"load", "rename", "initializeKey", "store">>

\* C23: rotateKey loads under the current key, backs the key file up,
\* generates a new key and stores, in this order; after a successful rotateKey
\* the backup holds the old key, the key file holds another key, and
\* loadSecureConfig returns the content it returned before.
C23_RotateKeyKeepsContent ==
  /\ rotateLog = SubSeq(RotateSteps, 1, Len(rotateLog))
  /\ rotation.pc = "done" =>
       /\ Len(rotateLog) = Len(RotateSteps)
       /\ keyBackup = rotation.oldKey
       /\ keyFile \notin {NoKey, rotation.oldKey}
       /\ \A padOk \in BOOLEAN :
            ConfigOf(keyFile, configFile, padOk) = rotation.config


\* The values that encrypt returned, anywhere in a stored value
RECURSIVE BlobsOf(_)
BlobsOf(value) ==
  IF value.type = "string" THEN {}
  ELSE IF value.blob # NoBlob THEN {value.blob}
  ELSE UNION {BlobsOf(value.props[k]) : k \in DOMAIN value.props}

\* Every encrypted value of the file at configPath decrypts under the key
DecryptableWith(key) ==
  \A field \in DOMAIN configFile.props : \A blob \in BlobsOf(configFile.props[field]) :
    /\ key # NoKey
    /\ \A outcome \in decrypt(key, blob) : outcome.kind = "return"

\* C39: during rotateKey and after it, whichever step fails, the document in
\* the file at configPath can be decrypted with the key in the key file or
\* with the backup at keyPath + '.old'.
C39_RotateKeyKeepsAKey ==
  rotateLog # <<>> => DecryptableWith(keyFile) \/ DecryptableWith(keyBackup)

\* C40: storeSecureConfig leaves the document of the caller as it was: after
\* the call every field of it, and every string inside its sensitive fields,
\* has the value it had before.
C40_CallerDocumentUnchanged ==
  lastStored.called => lastStored.after = lastStored.config
(***************************************************************************)
(* ConfigIntegrityChecker (config-encryption.js)                           *)
(***************************************************************************)
MaxIntegrityCalls == 3

\* Property values of the documents: a number or, for _integrity, the object
\* {hash, timestamp}. The SHA-256 digest is kept symbolic: the digest of a
\* document is the document it was computed from.
NoHash == [none |-> TRUE, sha256 |-> NoProps]

Number(n) == [object |-> FALSE, n |-> n, hash |-> NoHash, timestamp |-> 0]

IntegrityData(hash, timestamp) ==
  [object |-> TRUE, n |-> 0, hash |-> hash, timestamp |-> timestamp]

INTEGRITY == "_integrity"

\* Lines 217-220
generateHash(config) == [none |-> FALSE, sha256 |-> config]

\* Lines 224-230: {...config, _integrity: {hash, timestamp}}
ConfigWithHash(config, timestamp) ==
  [k \in DOMAIN config \cup {INTEGRITY} |->
     IF k = INTEGRITY THEN IntegrityData(generateHash(config), timestamp) ELSE config[k]]

\* delete config._integrity
WithoutIntegrity(props) == [k \in DOMAIN props \ {INTEGRITY} |-> props[k]]

Valid == [valid |-> TRUE, reason |-> ""]

Invalid(reason) == [valid |-> FALSE, reason |-> reason]

FILE_NOT_FOUND == "File not found"

NO_INTEGRITY_DATA == "No integrity data found"

HASH_MISMATCH == "Hash mismatch - configuration may have been tampered with"

\* Lines 235-260
verifyIntegrity(file) ==
  IF ~ file.exists THEN Invalid(FILE_NOT_FOUND)
  ELSE IF INTEGRITY \notin DOMAIN file.props
          \/ (~ file.props[INTEGRITY].object /\ file.props[INTEGRITY].n = 0)
  THEN Invalid(NO_INTEGRITY_DATA)
  ELSE IF file.props[INTEGRITY].hash # generateHash(WithoutIntegrity(file.props))
  THEN Invalid(HASH_MISMATCH)
  ELSE Valid

\* The documents handed to storeWithIntegrity; the last one was read from a
\* file that had integrity data and is stored again
SampleDocuments ==
  {[a |-> Number(1)],
   [a |-> Number(1), b |-> Number(2)],
   [a |-> Number(2), _integrity |-> IntegrityData(generateHash([a |-> Number(1)]), 0)]}

NoDocument == [exists |-> FALSE, props |-> NoProps]

IntegrityInit ==
  /\ integrityFile = NoDocument
  /\ written = [called |-> FALSE, config |-> NoProps]
  /\ edited = "none"
  /\ lastVerify = [called |-> FALSE, written |-> [called |-> FALSE, config |-> NoProps], edited |-> "none", result |-> Valid]
  /\ integrityCalls = 0

IntegrityCall ==
  /\ integrityCalls < MaxIntegrityCalls
  /\ integrityCalls' = integrityCalls + 1
  /\ UNCHANGED integrityFrame

\* storeWithIntegrity(configPath, config), lines 222-233
storeWithIntegrity ==
  /\ IntegrityCall
  /\ \E config \in SampleDocuments :
       /\ integrityFile' = [exists |-> TRUE, props |-> ConfigWithHash(config, integrityCalls)]
       /\ written' = [called |-> TRUE, config |-> config]
  /\ edited' = "none"
  /\ UNCHANGED lastVerify

\* The file is edited after it was written: one thing is done to it
Edit(kind, props) ==
  /\ IntegrityCall
  /\ integrityFile.exists
  /\ edited = "none"
  /\ integrityFile' = [integrityFile EXCEPT !.props = props]
  /\ edited' = kind
  /\ UNCHANGED <<written, lastVerify>>

Fields == DOMAIN integrityFile.props \ {INTEGRITY}

ChangeField ==
  \E k \in Fields :
    Edit("changed", [integrityFile.props EXCEPT ![k] = Number(@.n + 1)])

AddField ==
  \E k \in {"a", "b", "c"} \ Fields :
    Edit("added", [j \in DOMAIN integrityFile.props \cup {k} |->
                     IF j = k THEN Number(1) ELSE integrityFile.props[j]])

RemoveField ==
  \E k \in Fields :
    Edit("removed", [j \in DOMAIN integrityFile.props \ {k} |-> integrityFile.props[j]])

ChangeTimestamp ==
  /\ INTEGRITY \in DOMAIN integrityFile.props
  /\ Edit("timestamp", [integrityFile.props EXCEPT ![INTEGRITY].timestamp = @ + 1])

RemoveIntegrityData ==
  /\ INTEGRITY \in DOMAIN integrityFile.props
  /\ Edit("no integrity data", WithoutIntegrity(integrityFile.props))

\* verifyIntegrity(configPath)
VerifyIntegrity ==
  /\ IntegrityCall
  /\ lastVerify' = [called |-> TRUE, written |-> written, edited |-> edited,
                    result |-> verifyIntegrity(integrityFile)]
  /\ UNCHANGED <<integrityFile, written, edited>>

IntegrityNext ==
  \/ storeWithIntegrity
  \/ ChangeField
  \/ AddField
  \/ RemoveField
  \/ ChangeTimestamp
  \/ RemoveIntegrityData
  \/ VerifyIntegrity

\* C24: verifyIntegrity on a file written by storeWithIntegrity returns
\* valid = true; after a field other than the hash was changed, added or
\* removed it returns valid = false with the hash-mismatch reason; a missing
\* file and a file without integrity data return valid = false with their
\* own reasons.
C24_IntegrityVerdicts ==
  lastVerify.called =>
    /\ ~ lastVerify.written.called => lastVerify.result = Invalid(FILE_NOT_FOUND)
    /\ (lastVerify.written.called /\ lastVerify.edited = "none") => lastVerify.result = Valid
    /\ (lastVerify.written.called /\ lastVerify.edited \in {"changed", "added", "removed", "timestamp"})
         => lastVerify.result = Invalid(HASH_MISMATCH)
    /\ (lastVerify.written.called /\ lastVerify.edited = "no integrity data")
         => lastVerify.result = Invalid(NO_INTEGRITY_DATA)

(***************************************************************************)
(* PackageIntegrityChecker.verifyPackage (package-integrity.js) and the     *)
(* SecurityEventLogger (secure-error-handler.js)                           *)
(***************************************************************************)
MaxPkgCalls == 3

Issue(type, severity) == [type |-> type, severity |-> severity]

\* Lines 336-352, up to the return: the name is a string of allowed
\* characters and of at most 214 characters
PackageNameChars == Range(LowerChars) \cup Range(UpperChars) \cup Range(DigitChars)
                      \cup {"@", "-", "_", ".", "/"}

PackageNameAccepted(name) ==
  /\ name # <<>>
  /\ \A i \in 1..Len(name) : name[i] \in PackageNameChars
  /\ Len(name) <= 214

\* Lines 319-331, for the names used here
isSuspiciousPackageName(name) ==
  \/ Includes(ToLowerCase(name), <<"a", "d", "m", "i", "n">>)
  \/ Includes(ToLowerCase(name), <<"h", "a", "c", "k">>)
  \/ Includes(name, <<"l", "l">>)
  \/ Includes(name, <<"o", "o">>)

\* Lines 118-170
checkPackageMetadata(metadata) ==
  (IF isSuspiciousPackageName(metadata.name)
   THEN <<Issue("suspicious_name", "medium")>> ELSE <<>>)
  \o (IF metadata.descriptionLength < 10
      THEN <<Issue("missing_description", "low")>> ELSE <<>>)
  \o (IF metadata.suspiciousKeywords > 0
      THEN <<Issue("suspicious_keywords", "high")>> ELSE <<>>)
  \o (IF ~ metadata.repositoryUrl
      THEN <<Issue("no_repository", "medium")>> ELSE <<>>)
  \o (IF ~ metadata.license
      THEN <<Issue("no_license", "low")>> ELSE <<>>)

trustedPublishers == {"npm", "facebook", "google", "microsoft", "sindresorhus",
                      "johnpapa", "angular", "typescript"}

\* Lines 175-200; score is calculatePublisherTrustScore(author) in tenths
checkPublisherTrust(metadata, score) ==
  IF metadata.author = "" THEN <<Issue("no_author", "medium")>>
  ELSE IF metadata.author \notin trustedPublishers /\ score < 3
  THEN <<Issue("untrusted_publisher", "medium")>>
  ELSE <<>>

\* Lines 205-236: [threw, issues]; with more than 50 versions and no
\* metadata.time, metadata.time[version] throws a TypeError
checkPackageAge(metadata) ==
  LET young == IF metadata.hasTime /\ metadata.daysSinceCreated < 7
               THEN <<Issue("very_new_package", "medium")>> ELSE <<>>
  IN IF metadata.versions > 50 /\ ~ metadata.hasTime
     THEN [threw |-> TRUE, issues |-> young]
     ELSE [threw |-> FALSE,
           issues |-> young \o (IF metadata.versions > 50 /\ metadata.recentVersions > 10
                                THEN <<Issue("version_bombing", "high")>> ELSE <<>>)]

\* Lines 241-264; downloads < 0 stands for a request that failed or a
\* response without downloads
checkDownloadStats(metadata, downloads) ==
  IF /\ downloads >= 0
     /\ metadata.hasTime /\ metadata.daysSinceCreated < 30
     /\ downloads > 100000
  THEN <<Issue("suspicious_download_pattern", "medium")>>
  ELSE <<>>

\* Counts as unsafe only what is not high or critical (mutant)
IsSevereCriticalOnly(issue) == issue.severity = "critical"

\* Line 55
IsSevere(issue) == issue.severity = "high" \/ issue.severity = "critical"

\* Lines 54-56
SafeOf(issues) == \A i \in 1..Len(issues) : ~ IsSevere(issues[i])

\* Lines 66-73
VerificationError == Issue("verification_error", "high")

\* Lines 204-214
getSeverity(type) ==
  IF type = "command_injection" THEN "CRITICAL"
  ELSE IF type \in {"path_traversal", "malicious_input"} THEN "HIGH"
  ELSE IF type = "rate_limit" THEN "MEDIUM"
  ELSE IF type = "validation_error" THEN "LOW"
  ELSE "MEDIUM"

\* Lines 188-196
logEvent(log, type, details) ==
  Append(log, [type |-> type, details |-> details, severity |-> getSeverity(type)])

PACKAGE_INTEGRITY_FAILURE == "package_integrity_failure"

\* Lines 32-76 for one call. reply is what this.httpClient.get(url) did:
\* SecureHttpClient has request and getJson but no get, so the call throws
\* "not a function" unless the client was given one; then it throws or
\* returns whatever the registry sent.
verifyPackage(packageName, reply, score, downloads, log) ==
  LET known == IF packageName \in DOMAIN knownVulnerabilities
               THEN knownVulnerabilities[packageName] ELSE <<>>
      metadata == reply.metadata
      age == checkPackageAge(metadata)
      upToAge == known \o checkPackageMetadata(metadata)
                   \o checkPublisherTrust(metadata, score) \o age.issues
      issues == upToAge \o checkDownloadStats(metadata, downloads)
  IN IF ~ PackageNameAccepted(packageName) \/ reply.kind # "metadata"
     THEN [path |-> "error", safe |-> FALSE, issues |-> <<VerificationError>>, events |-> log]
     ELSE IF age.threw
     THEN [path |-> "error", safe |-> FALSE,
           issues |-> Append(upToAge, VerificationError), events |-> log]
     ELSE [path |-> "normal", safe |-> SafeOf(issues), issues |-> issues,
           events |-> IF SafeOf(issues) THEN log
                      ELSE logEvent(log, PACKAGE_INTEGRITY_FAILURE,
                                    [package |-> packageName, issues |-> Len(issues)])]

NoMetadata ==
  [name |-> <<>>, descriptionLength |-> 0, suspiciousKeywords |-> 0, repositoryUrl |-> FALSE,
   license |-> FALSE, author |-> "", hasTime |-> FALSE, daysSinceCreated |-> 0,
   versions |-> 0, recentVersions |-> 0]

LODASH == <<"l", "o", "d", "a", "s", "h">>

GoodMetadata ==
  [name |-> LODASH, descriptionLength |-> 40, suspiciousKeywords |-> 0, repositoryUrl |-> TRUE,
   license |-> TRUE, author |-> "npm", hasTime |-> TRUE, daysSinceCreated |-> 400,
   versions |-> 3, recentVersions |-> 0]

\* What the registry can answer: a well-kept package; one without
\* description, license and known author; one with suspicious keywords; one
\* with too many recent versions; a new one with a suspicious name; one with
\* many versions and no time table
SampleMetadata ==
  {GoodMetadata,
   [GoodMetadata EXCEPT !.descriptionLength = 0, !.license = FALSE, !.author = "someone"],
   [GoodMetadata EXCEPT !.suspiciousKeywords = 1],
   [GoodMetadata EXCEPT !.versions = 51, !.recentVersions = 11],
   [GoodMetadata EXCEPT !.name = <<"a", "d", "m", "i", "n">>, !.daysSinceCreated = 3,
                        !.author = "", !.repositoryUrl = FALSE],
   [GoodMetadata EXCEPT !.versions = 51, !.hasTime = FALSE]}

\* What the registry answers to a GET of the package document: the request
\* fails, the document has no name, or it is the metadata of a package
RegistryAnswers ==
  {[kind |-> "throws", metadata |-> NoMetadata],
   [kind |-> "no name", metadata |-> NoMetadata]}
  \cup {[kind |-> "metadata", metadata |-> metadata] : metadata \in SampleMetadata}

\* The methods of SecureHttpClient (secure-http.js)
SecureHttpClientMethods == {"request", "validateResponseBody", "safeReadResponse", "getJson"}

\* What this.httpClient can be: the SecureHttpClient the constructor makes, or
\* an object with a get method put in its place
HttpClients == {"SecureHttpClient", "client with get"}

MethodsOf(httpClient) ==
  IF httpClient = "SecureHttpClient" THEN SecureHttpClientMethods
  ELSE SecureHttpClientMethods \cup {"get"}

\* await this.httpClient.get(url), line 85: a TypeError when the client has no
\* get, else what the registry answers
HttpClientGet(httpClient, answer) ==
  IF "get" \in MethodsOf(httpClient) THEN answer
  ELSE [kind |-> "not a function", metadata |-> NoMetadata]

NoAnswer == [kind |-> "", metadata |-> NoMetadata]

SamplePackageNames == {LODASH, <<"a", "|", "b">>}

SampleScores == {1, 5}

SampleDownloads == {-1, 200000}

\* vulnerability.severity of addKnownVulnerability; "" for none given
SampleSeverities == {"", "low", "critical"}

PkgInit ==
  /\ knownVulnerabilities = [name \in {} |-> <<>>]
  /\ events = <<>>
  /\ lastResult = [returned |-> FALSE, path |-> "", safe |-> TRUE, issues |-> <<>>,
                   eventsBefore |-> 0, packageName |-> <<>>, client |-> "", answer |-> NoAnswer,
                   score |-> 0, downloads |-> 0, known |-> <<>>]
  /\ pkgCalls = 0

\* addKnownVulnerability(packageName, vulnerability), lines 357-369
addKnownVulnerability ==
  /\ pkgCalls < MaxPkgCalls
  /\ \E packageName \in SamplePackageNames, severity \in SampleSeverities :
       LET issue == Issue("known_vulnerability", IF severity = "" THEN "medium" ELSE severity)
           before == IF packageName \in DOMAIN knownVulnerabilities
                     THEN knownVulnerabilities[packageName] ELSE <<>>
       IN knownVulnerabilities' =
            [name \in DOMAIN knownVulnerabilities \cup {packageName} |->
               IF name = packageName THEN Append(before, issue)
               ELSE knownVulnerabilities[name]]
  /\ pkgCalls' = pkgCalls + 1
  /\ UNCHANGED <<events, lastResult>>
  /\ UNCHANGED pkgFrame

VerifyPackage ==
  /\ pkgCalls < MaxPkgCalls
  /\ \E packageName \in SamplePackageNames, httpClient \in HttpClients, answer \in RegistryAnswers,
        score \in SampleScores, downloads \in SampleDownloads :
       LET verified == verifyPackage(packageName, HttpClientGet(httpClient, answer), score,
                                     downloads, events)
       IN /\ events' = verified.events
          /\ lastResult' = [returned |-> TRUE, path |-> verified.path, safe |-> verified.safe,
                            issues |-> verified.issues, eventsBefore |-> Len(events),
                            packageName |-> packageName, client |-> httpClient, answer |-> answer,
                            score |-> score, downloads |-> downloads,
                            known |-> IF packageName \in DOMAIN knownVulnerabilities
                                      THEN knownVulnerabilities[packageName] ELSE <<>>]
  /\ pkgCalls' = pkgCalls + 1
  /\ UNCHANGED knownVulnerabilities
  /\ UNCHANGED pkgFrame

PkgNext ==
  \/ addKnownVulnerability
  \/ VerifyPackage

HasSevereIssue(issues) ==
  \E i \in 1..Len(issues) : issues[i].severity \in {"high", "critical"}

\* C25: in every result of verifyPackage, from the normal path and from the
\* error path, safe is false exactly when the issues contain one of severity
\* high or critical.
C25_SafeIffNoSevereIssue ==
  lastResult.returned => (~ lastResult.safe <=> HasSevereIssue(lastResult.issues))

\* The normal path returned safe = false with a high issue next to a low one
C25_Witness ==
  /\ lastResult.returned
  /\ lastResult.path = "normal"
  /\ ~ lastResult.safe
  /\ \E i \in 1..Len(lastResult.issues) : lastResult.issues[i].severity = "high"
  /\ \E i \in 1..Len(lastResult.issues) : lastResult.issues[i].severity = "low"

EventsLogged == SubSeq(events, lastResult.eventsBefore + 1, Len(events))

\* C26: a verifyPackage call that returns safe = false, also after an error
\* in the verification, has appended exactly one package_integrity_failure
\* event; a call that returns safe = true has appended none.
C26_EventOnEveryFailure ==
  lastResult.returned =>
    IF lastResult.safe THEN EventsLogged = <<>>
    ELSE /\ Len(EventsLogged) = 1
         /\ EventsLogged[1].type = PACKAGE_INTEGRITY_FAILURE

\* The issues the checks of verifyPackage raise for the latest call
CheckIssues ==
  lastResult.known
    \o checkPackageMetadata(lastResult.answer.metadata)
    \o checkPublisherTrust(lastResult.answer.metadata, lastResult.score)
    \o checkPackageAge(lastResult.answer.metadata).issues
    \o checkDownloadStats(lastResult.answer.metadata, lastResult.downloads)

\* The registry has the metadata of the package, with a name and its times
WellFormedAnswer ==
  /\ lastResult.answer.kind = "metadata"
  /\ lastResult.answer.metadata.name # <<>>
  /\ lastResult.answer.metadata.hasTime

\* C36: when the registry answers the request for a package with well-formed
\* metadata, the result of verifyPackage has no verification_error, its
\* issues are those the checks raise, and it is safe when none of them is
\* high or critical.
C36_ChecksRunOnRegistryMetadata ==
  (lastResult.returned /\ PackageNameAccepted(lastResult.packageName) /\ WellFormedAnswer) =>
    /\ \A i \in 1..Len(lastResult.issues) : lastResult.issues[i].type # "verification_error"
    /\ lastResult.issues = CheckIssues
    /\ ~ HasSevereIssue(CheckIssues) => lastResult.safe
(***************************************************************************)
(* sanitizePackageName (input-sanitizer.js)                                *)
(***************************************************************************)
MAX_NAME_LENGTH == 214

\* Lines 33-63
dangerousPatterns ==
  << <<"|">>,
     <<";">>,
     <<"&">>,
     <<"&", "&">>,
     <<"|", "|">>,
     <<"$">>,
     <<"backtick">>,
     <<"$", "(">>,
     <<"$", "{">>,
     <<".", ".", "/">>,
     <<".", ".", "\\">>,
     <<"/", ".", "/">>,
     <<"\\", ".", "\\">>,
     <<"/", "/">>,
     <<"\\", "\\">>,
     <<"f", "i", "l", "e", ":", "/", "/">>,
     <<"h", "t", "t", "p", ":", "/", "/">>,
     <<"h", "t", "t", "p", "s", ":", "/", "/">>,
     <<"f", "t", "p", ":", "/", "/">>,
     <<"d", "a", "t", "a", ":">>,
     <<"c", "u", "r", "l">>,
     <<"w", "g", "e", "t">>,
     <<"b", "a", "s", "h">>,
     <<"p", "o", "w", "e", "r", "s", "h", "e", "l", "l">>,
     <<"b", "a", "s", "e", "6", "4">>,
     <<"w", "h", "o", "a", "m", "i">>,
     <<"r", "m", " ">>,
     <<"d", "e", "l", " ">>,
     <<"f", "o", "r", "m", "a", "t">> >>

\* [A-Za-z0-9_], the characters on the inner side of \b
WordChars == Range(LowerChars) \cup Range(UpperChars) \cup Range(DigitChars) \cup {"_"}

\* new RegExp('\\b' + word + '\\b', 'i').test(s)
HasWord(s, word) ==
  \E i \in 1..(Len(s) - Len(word) + 1) :
    /\ ToLowerCase(SubSeq(s, i, i + Len(word) - 1)) = word
    /\ (i = 1 \/ s[i - 1] \notin WordChars)
    /\ (i + Len(word) - 1 = Len(s) \/ s[i + Len(word)] \notin WordChars)

\* Line 66
shellPatterns == << <<"s", "h">>, <<"c", "m", "d">> >>

\* The character classes of validNamePattern, line 84
ScopeFirstChars == Range(LowerChars) \cup Range(DigitChars) \cup {"-", "*", "~"}

ScopeChars == ScopeFirstChars \cup {".", "_"}

NameFirstChars == Range(LowerChars) \cup Range(DigitChars) \cup {"-", "~"}

NameChars == NameFirstChars \cup {".", "_"}

\* [a-z0-9-~][a-z0-9-._~]*
MatchesName(s) ==
  /\ s # <<>>
  /\ s[1] \in NameFirstChars
  /\ \A i \in 2..Len(s) : s[i] \in NameChars

\* /^(?:@[a-z0-9-*~][a-z0-9-*._~]*\/)?[a-z0-9-~][a-z0-9-._~]*$/
validNamePattern(s) ==
  \/ MatchesName(s)
  \/ \E slash \in 3..Len(s) :
       /\ s[1] = "@"
       /\ s[slash] = "/"
       /\ s[2] \in ScopeFirstChars
       /\ \A i \in 3..(slash - 1) : s[i] \in ScopeChars
       /\ MatchesName(SubSeq(s, slash + 1, Len(s)))

\* Line 90
suspiciousPrefixes ==
  << <<"n", "o", "d", "e", "_", "m", "o", "d", "u", "l", "e", "s">>,
     <<".", "g", "i", "t">>,
     <<".", "e", "n", "v">>,
     <<"e", "t", "c", "/">>,
     <<"u", "s", "r", "/">>,
     <<"v", "a", "r", "/">>,
     <<"t", "m", "p", "/">> >>

Accepted(value) == [ok |-> TRUE, value |-> value, error |-> <<>>]

Rejected(error) == [ok |-> FALSE, value |-> <<>>, error |-> error]

MsgNameNotString == <<"P", "a", "c", "k", "a", "g", "e", " ", "n", "a", "m", "e", " ", "m", "u", "s", "t", " ", "b", "e", " ", "a", " ", "s", "t", "r", "i", "n", "g">>

MsgNameEmpty == <<"P", "a", "c", "k", "a", "g", "e", " ", "n", "a", "m", "e", " ", "c", "a", "n", "n", "o", "t", " ", "b", "e", " ", "e", "m", "p", "t", "y">>

MsgNameTooLong == <<"P", "a", "c", "k", "a", "g", "e", " ", "n", "a", "m", "e", " ", "t", "o", "o", " ", "l", "o", "n", "g", " ", "(", "m", "a", "x", " ", "2", "1", "4", " ", "c", "h", "a", "r", "a", "c", "t", "e", "r", "s", ")">>

MsgNameDangerous == <<"D", "a", "n", "g", "e", "r", "o", "u", "s", " ", "p", "a", "t", "t", "e", "r", "n", " ", "d", "e", "t", "e", "c", "t", "e", "d", ":", " ">>

MsgNameFormat == <<"I", "n", "v", "a", "l", "i", "d", " ", "p", "a", "c", "k", "a", "g", "e", " ", "n", "a", "m", "e", " ", "f", "o", "r", "m", "a", "t">>

MsgNamePrefix == <<"P", "a", "c", "k", "a", "g", "e", " ", "n", "a", "m", "e", " ", "c", "a", "n", "n", "o", "t", " ", "s", "t", "a", "r", "t", " ", "w", "i", "t", "h", ":", " ">>

\* The regular expression source '\\bsh\\b': replace('\\\\b', '') looks for two
\* backslashes and finds none, so the source is put into the message as it is
ShellPatternSource(word) == <<"\\", "b">> \o word \o <<"\\", "b">>

\* Lines 16-98
sanitizePackageName(packageName) ==
  IF packageName.type # "string" THEN Rejected(MsgNameNotString)
  ELSE LET trimmed == Trim(packageName.val)
           lowered == ToLowerCase(trimmed)
           hits == {i \in 1..Len(dangerousPatterns) :
                      Includes(lowered, ToLowerCase(dangerousPatterns[i]))}
           shellHits == {i \in 1..Len(shellPatterns) : HasWord(trimmed, shellPatterns[i])}
           prefixHits == {i \in 1..Len(suspiciousPrefixes) :
                            StartsWith(lowered, suspiciousPrefixes[i])}
       IN IF Len(trimmed) = 0 THEN Rejected(MsgNameEmpty)
          ELSE IF Len(trimmed) > MAX_NAME_LENGTH THEN Rejected(MsgNameTooLong)
          ELSE IF hits # {} THEN Rejected(MsgNameDangerous \o dangerousPatterns[Min(hits)])
          ELSE IF shellHits # {}
          THEN Rejected(MsgNameDangerous \o ShellPatternSource(shellPatterns[Min(shellHits)]))
          ELSE IF ~ validNamePattern(trimmed) THEN Rejected(MsgNameFormat)
          ELSE IF prefixHits # {}
          THEN Rejected(MsgNamePrefix \o suspiciousPrefixes[Min(prefixHits)])
          ELSE Accepted(trimmed)

\* Names handed to sanitizePackageName: the ones of the tests, names with
\* whitespace around them, and names that one of the checks refuses
SampleNames ==
  { <<"l", "o", "d", "a", "s", "h">>,
    <<" ", "l", "o", "d", "a", "s", "h", " ">>,
    <<"\t", "l", "o", "d", "a", "s", "h", "\n">>,
    <<"@", "t", "y", "p", "e", "s", "/", "n", "o", "d", "e">>,
    <<"m", "y", "-", "p", "a", "c", "k", "a", "g", "e">>,
    <<"p", "a", "c", "k", "a", "g", "e", "_", "n", "a", "m", "e">>,
    <<"p", "a", "c", "k", "a", "g", "e", ".", "n", "a", "m", "e">>,
    <<"@", "s", "c", "o", "p", "e", "/", "p", "a", "c", "k", "a", "g", "e", "-", "n", "a", "m", "e">>,
    <<"L", "o", "d", "a", "s", "h">>,
    <<"s", "h">>,
    <<"a", "-", "s", "h">>,
    <<"c", "m", "d">>,
    <<".", "g", "i", "t">>,
    <<"n", "o", "d", "e", "_", "m", "o", "d", "u", "l", "e", "s">>,
    <<>>,
    <<" ">>,
    <<"@", "/", "x">>,
    <<"@", "a", "/">>,
    <<"a", "/", "b">>,
    <<"t", "m", "p", "-", "x">>,
    <<"f", "o", "r", "m", "a", "t", "-", "j", "s">>,
    <<"-", "x">>,
    <<"~", "a">>,
    <<"_", "a">>,
    <<"a", "*">>,
    <<"@", "*", "/", "a">>,
    <<"x", "x", "x", "x", "x", "x", "x", "x", "x", "x", "x", "x", "x", "x", "x", "x", "x", "x", "x", "x", "x", "x", "x", "x", "x", "x", "x", "x", "x", "x", "x", "x", "x", "x", "x", "x", "x", "x", "x", "x", "x", "x", "x", "x", "x", "x", "x", "x", "x", "x", "x", "x", "x", "x", "x", "x", "x", "x", "x", "x", "x", "x", "x", "x", "x", "x", "x", "x", "x", "x", "x", "x", "x", "x", "x", "x", "x", "x", "x", "x", "x", "x", "x", "x", "x", "x", "x", "x", "x", "x", "x", "x", "x", "x", "x", "x", "x", "x", "x", "x", "x", "x", "x", "x", "x", "x", "x", "x", "x", "x", "x", "x", "x", "x", "x", "x", "x", "x", "x", "x", "x", "x", "x", "x", "x", "x", "x", "x", "x", "x", "x", "x", "x", "x", "x", "x", "x", "x", "x", "x", "x", "x", "x", "x", "x", "x", "x", "x", "x", "x", "x", "x", "x", "x", "x", "x", "x", "x", "x", "x", "x", "x", "x", "x", "x", "x", "x", "x", "x", "x", "x", "x", "x", "x", "x", "x", "x", "x", "x", "x", "x", "x", "x", "x", "x", "x", "x", "x", "x", "x", "x", "x", "x", "x", "x", "x", "x", "x", "x", "x", "x", "x", "x", "x", "x", "x", "x", "x", "x", "x", "x", "x", "x", "x", "x">>,
    <<" ", "x", "x", "x", "x", "x", "x", "x", "x", "x", "x", "x", "x", "x", "x", "x", "x", "x", "x", "x", "x", "x", "x", "x", "x", "x", "x", "x", "x", "x", "x", "x", "x", "x", "x", "x", "x", "x", "x", "x", "x", "x", "x", "x", "x", "x", "x", "x", "x", "x", "x", "x", "x", "x", "x", "x", "x", "x", "x", "x", "x", "x", "x", "x", "x", "x", "x", "x", "x", "x", "x", "x", "x", "x", "x", "x", "x", "x", "x", "x", "x", "x", "x", "x", "x", "x", "x", "x", "x", "x", "x", "x", "x", "x", "x", "x", "x", "x", "x", "x", "x", "x", "x", "x", "x", "x", "x", "x", "x", "x", "x", "x", "x", "x", "x", "x", "x", "x", "x", "x", "x", "x", "x", "x", "x", "x", "x", "x", "x", "x", "x", "x", "x", "x", "x", "x", "x", "x", "x", "x", "x", "x", "x", "x", "x", "x", "x", "x", "x", "x", "x", "x", "x", "x", "x", "x", "x", "x", "x", "x", "x", "x", "x", "x", "x", "x", "x", "x", "x", "x", "x", "x", "x", "x", "x", "x", "x", "x", "x", "x", "x", "x", "x", "x", "x", "x", "x", "x", "x", "x", "x", "x", "x", "x", "x", "x", "x", "x", "x", "x", "x", "x", "x", "x", "x", "x", "x", "x", "x", "x", "x", "x", "x", "x", "x", " ">> }

MaxMetaLen == 3

\* The deny-listed shell metacharacters and what they are mixed with
MetaAlphabet == {"a", " ", ";", "|", "&", "backtick", "$", "("}

HasMetacharacter(s) ==
  \/ \E i \in 1..Len(s) : s[i] \in {";", "|", "&", "backtick"}
  \/ Includes(s, <<"$", "(">>)

\* Every string of up to MaxMetaLen characters with a metacharacter in it,
\* and one that is too long as well
MetaStrings ==
  {s \in SeqsUpTo(MetaAlphabet, MaxMetaLen) : HasMetacharacter(s)}
    \cup {LongArg \o <<";">>}

(***************************************************************************)
(* sanitizeFilePath (input-sanitizer.js), with path.resolve and            *)
(* path.extname of the POSIX path module                                   *)
(***************************************************************************)
MAX_PATH_LENGTH == 260

\* path.sep
SEP == "/"

\* s.split(sep)
RECURSIVE Split(_, _)
Split(s, sep) ==
  IF \A i \in 1..Len(s) : s[i] # sep THEN <<s>>
  ELSE LET k == Min({i \in 1..Len(s) : s[i] = sep})
       IN <<SubSeq(s, 1, k - 1)>> \o Split(SubSeq(s, k + 1, Len(s)), sep)

\* normalizeString for an absolute path: '' and '.' are dropped, '..' goes one
\* directory up and stays at the root
RECURSIVE NormalizeSegments(_, _)
NormalizeSegments(segs, acc) ==
  IF segs = <<>> THEN acc
  ELSE NormalizeSegments(Tail(segs),
         IF Head(segs) = <<>> \/ Head(segs) = <<".">> THEN acc
         ELSE IF Head(segs) = <<".", ".">>
         THEN (IF acc = <<>> THEN acc ELSE SubSeq(acc, 1, Len(acc) - 1))
         ELSE Append(acc, Head(segs)))

Segments(p) == NormalizeSegments(Split(p, SEP), <<>>)

RECURSIVE JoinSegments(_)
JoinSegments(segs) ==
  IF segs = <<>> THEN <<>> ELSE <<SEP>> \o Head(segs) \o JoinSegments(Tail(segs))

IsAbsolute(p) == p # <<>> /\ p[1] = SEP

\* The loop of path.resolve: arguments are put in front, from the last one
\* backwards, until the path is absolute; empty arguments are skipped
RECURSIVE PrependPaths(_, _)
PrependPaths(paths, resolvedPath) ==
  IF paths = <<>> \/ IsAbsolute(resolvedPath) THEN resolvedPath
  ELSE LET p == paths[Len(paths)]
           rest == SubSeq(paths, 1, Len(paths) - 1)
       IN IF p = <<>> THEN PrependPaths(rest, resolvedPath)
          ELSE PrependPaths(rest, p \o <<SEP>> \o resolvedPath)

\* path.resolve(...paths) in a process whose working directory is cwd
PathResolve(paths, cwd) ==
  LET segs == Segments(PrependPaths(<<cwd>> \o paths, <<>>))
  IN IF segs = <<>> THEN <<SEP>> ELSE JoinSegments(segs)

\* path.extname(p): from the last dot of the last component, '' when there is
\* no dot, when the dot is the first character, and for '..'
PathExtname(p) ==
  LET parts == Split(p, SEP)
      base == parts[Len(parts)]
      dots == {i \in 1..Len(base) : base[i] = "."}
      startDot == CHOOSE i \in dots : \A j \in dots : j <= i
  IN IF dots = {} THEN <<>>
     ELSE IF startDot = 1 THEN <<>>
     ELSE IF base = <<".", ".">> THEN <<>>
     ELSE SubSeq(base, startDot, Len(base))

EndsWith(s, p) == Len(s) >= Len(p) /\ SubSeq(s, Len(s) - Len(p) + 1, Len(s)) = p

Separators == {"/", "\\"}

\* /\.git(?![/\\]workflows)/i
MatchesDotGit(lowered) ==
  \E i \in 1..(Len(lowered) - 3) :
    /\ SubSeq(lowered, i, i + 3) = <<".", "g", "i", "t">>
    /\ ~ (/\ Len(lowered) >= i + 13
          /\ lowered[i + 4] \in Separators
          /\ SubSeq(lowered, i + 5, i + 13) = <<"w", "o", "r", "k", "f", "l", "o", "w", "s">>)

\* /[/\\]a[/\\]/i and /[/\\]a[/\\]b/i
MatchesBetweenSeparators(lowered, a, b) ==
  \E i \in 1..(Len(lowered) - Len(a) - Len(b) - 1) :
    /\ lowered[i] \in Separators
    /\ SubSeq(lowered, i + 1, i + Len(a)) = a
    /\ lowered[i + Len(a) + 1] \in Separators
    /\ SubSeq(lowered, i + Len(a) + 2, i + Len(a) + 1 + Len(b)) = b

\* Lines 133-151
forbiddenPatterns(resolved) ==
  LET lowered == ToLowerCase(resolved)
  IN \/ Includes(lowered, <<"n", "o", "d", "e", "_", "m", "o", "d", "u", "l", "e", "s">>)
     \/ MatchesDotGit(lowered)
     \/ EndsWith(lowered, <<".", "e", "n", "v">>)
     \/ Includes(lowered, <<".", "s", "s", "h">>)
     \/ Includes(lowered, <<".", "a", "w", "s">>)
     \/ Includes(lowered, <<".", "d", "o", "c", "k", "e", "r">>)
     \/ MatchesBetweenSeparators(lowered, <<"e", "t", "c">>, <<>>)
     \/ MatchesBetweenSeparators(lowered, <<"u", "s", "r">>, <<"b", "i", "n">>)
     \/ MatchesBetweenSeparators(lowered, <<"v", "a", "r">>, <<"l", "o", "g">>)
     \/ MatchesBetweenSeparators(lowered, <<"t", "m", "p">>, <<>>)
     \/ \E sep \in Separators : Includes(resolved, <<".", ".", sep, ".", ".">>)

\* Lines 155-171
allowedExtensions ==
  { <<".", "j", "s">>,
    <<".", "j", "s", "o", "n">>,
    <<".", "m", "d">>,
    <<".", "t", "x", "t">>,
    <<".", "y", "m", "l">>,
    <<".", "y", "a", "m", "l">>,
    <<".", "t", "s">>,
    <<".", "j", "s", "x">>,
    <<".", "t", "s", "x">>,
    <<".", "c", "s", "s">>,
    <<".", "h", "t", "m", "l">>,
    <<".", "x", "m", "l">>,
    <<".", "g", "i", "t", "i", "g", "n", "o", "r", "e">>,
    <<".", "e", "s", "l", "i", "n", "t", "r", "c">>,
    <<".", "p", "r", "e", "t", "t", "i", "e", "r", "r", "c">> }

\* A test that looks for the base directory without the separator after it (mutant)
WithinBaseNoSeparator(resolved, normalizedBase) == StartsWith(resolved, normalizedBase)

\* Line 128
WithinBase(resolved, normalizedBase) ==
  StartsWith(resolved, normalizedBase \o <<SEP>>) \/ resolved = normalizedBase

\* Line 173
ExtensionRejected(ext) ==
  ext # <<>> /\ ext \notin allowedExtensions /\ ~ StartsWith(ext, <<".">>)

MsgPathNotString == <<"F", "i", "l", "e", " ", "p", "a", "t", "h", " ", "m", "u", "s", "t", " ", "b", "e", " ", "a", " ", "s", "t", "r", "i", "n", "g">>

MsgPathEmpty == <<"F", "i", "l", "e", " ", "p", "a", "t", "h", " ", "c", "a", "n", "n", "o", "t", " ", "b", "e", " ", "e", "m", "p", "t", "y">>

MsgPathTooLong == <<"F", "i", "l", "e", " ", "p", "a", "t", "h", " ", "t", "o", "o", " ", "l", "o", "n", "g", " ", "(", "m", "a", "x", " ", "2", "6", "0", " ", "c", "h", "a", "r", "a", "c", "t", "e", "r", "s", ")">>

MsgPathOutside == <<"F", "i", "l", "e", " ", "p", "a", "t", "h", " ", "o", "u", "t", "s", "i", "d", "e", " ", "a", "l", "l", "o", "w", "e", "d", " ", "d", "i", "r", "e", "c", "t", "o", "r", "y", ":", " ">>

MsgPathForbidden == <<"A", "c", "c", "e", "s", "s", " ", "t", "o", " ", "f", "o", "r", "b", "i", "d", "d", "e", "n", " ", "p", "a", "t", "h", ":", " ">>

MsgExtension == <<"F", "i", "l", "e", " ", "e", "x", "t", "e", "n", "s", "i", "o", "n", " ", "n", "o", "t", " ", "a", "l", "l", "o", "w", "e", "d", ":", " ">>

\* Lines 107-177
sanitizeFilePath(filePath, baseDir, cwd) ==
  IF filePath.type # "string" THEN Rejected(MsgPathNotString)
  ELSE LET trimmed == Trim(filePath.val)
           resolved == PathResolve(<<baseDir, trimmed>>, cwd)
           normalizedBase == PathResolve(<<baseDir>>, cwd)
           ext == ToLowerCase(PathExtname(resolved))
       IN IF Len(trimmed) = 0 THEN Rejected(MsgPathEmpty)
          ELSE IF Len(trimmed) > MAX_PATH_LENGTH THEN Rejected(MsgPathTooLong)
          ELSE IF ~ WithinBase(resolved, normalizedBase)
          THEN Rejected(MsgPathOutside \o trimmed)
          ELSE IF forbiddenPatterns(resolved) THEN Rejected(MsgPathForbidden \o trimmed)
          ELSE IF ExtensionRejected(ext) THEN Rejected(MsgExtension \o ext)
          ELSE Accepted(resolved)

\* process.cwd()
Cwd == <<"/", "a", "p", "p">>

SampleBaseDirs ==
  { <<"/", "a", "p", "p">>,
    <<"/", "a", "p", "p", "/">>,
    <<"/", "s", "r", "v", "/", "d", "a", "t", "a">>,
    <<"/">>,
    <<>>,
    <<"w", "o", "r", "k">>,
    <<"/", "a", "p", "p", "/", ".", ".", "/", "s", "r", "v", "/", "d", "a", "t", "a">> }

\* Paths of the tests and paths that one of the checks is about
SamplePaths ==
  { <<".", "e", "s", "l", "i", "n", "t", "r", "c", ".", "j", "s", "o", "n">>,
    <<"s", "r", "c", "/", "i", "n", "d", "e", "x", ".", "j", "s">>,
    <<"p", "a", "c", "k", "a", "g", "e", ".", "j", "s", "o", "n">>,
    <<"d", "o", "c", "s", "/", "R", "E", "A", "D", "M", "E", ".", "m", "d">>,
    <<".", ".", "/", ".", ".", "/", ".", ".", "/", "e", "t", "c", "/", "p", "a", "s", "s", "w", "d">>,
    <<".", ".", "\\", ".", ".", "\\", "w", "i", "n", "d", "o", "w", "s", "\\", "s", "y", "s", "t", "e", "m", "3", "2">>,
    <<"/", "e", "t", "c", "/", "p", "a", "s", "s", "w", "d">>,
    <<"C", ":", "\\", "W", "i", "n", "d", "o", "w", "s", "\\", "S", "y", "s", "t", "e", "m", "3", "2">>,
    <<"n", "o", "d", "e", "_", "m", "o", "d", "u", "l", "e", "s", "/", "e", "v", "i", "l", ".", "j", "s">>,
    <<".", "g", "i", "t", "/", "h", "o", "o", "k", "s", "/", "p", "r", "e", "-", "c", "o", "m", "m", "i", "t">>,
    <<".", "e", "n", "v">>,
    <<".", "s", "s", "h", "/", "i", "d", "_", "r", "s", "a">>,
    <<"/", "v", "a", "r", "/", "l", "o", "g", "/", "s", "y", "s", "t", "e", "m", ".", "l", "o", "g">>,
    <<"a", "a", "a", "a", "a", "a", "a", "a", "a", "a", "a", "a", "a", "a", "a", "a", "a", "a", "a", "a", "a", "a", "a", "a", "a", "a", "a", "a", "a", "a", "a", "a", "a", "a", "a", "a", "a", "a", "a", "a", "a", "a", "a", "a", "a", "a", "a", "a", "a", "a", "a", "a", "a", "a", "a", "a", "a", "a", "a", "a", "a", "a", "a", "a", "a", "a", "a", "a", "a", "a", "a", "a", "a", "a", "a", "a", "a", "a", "a", "a", "a", "a", "a", "a", "a", "a", "a", "a", "a", "a", "a", "a", "a", "a", "a", "a", "a", "a", "a", "a", "a", "a", "a", "a", "a", "a", "a", "a", "a", "a", "a", "a", "a", "a", "a", "a", "a", "a", "a", "a", "a", "a", "a", "a", "a", "a", "a", "a", "a", "a", "a", "a", "a", "a", "a", "a", "a", "a", "a", "a", "a", "a", "a", "a", "a", "a", "a", "a", "a", "a", "a", "a", "a", "a", "a", "a", "a", "a", "a", "a", "a", "a", "a", "a", "a", "a", "a", "a", "a", "a", "a", "a", "a", "a", "a", "a", "a", "a", "a", "a", "a", "a", "a", "a", "a", "a", "a", "a", "a", "a", "a", "a", "a", "a", "a", "a", "a", "a", "a", "a", "a", "a", "a", "a", "a", "a", "a", "a", "a", "a", "a", "a", "a", "a", "a", "a", "a", "a", "a", "a", "a", "a", "a", "a", "a", "a", "a", "a", "a", "a", "a", "a", "a", "a", "a", "a", "a", "a", "a", "a", "a", "a", "a", "a", "a", "a", "a", "a", "a", "a", "a", "a", "a", "a", "a", "a", "a", "a", "a", "a", "a">>,
    <<"t", "o", "o", "l", ".", "e", "x", "e">>,
    <<"r", "u", "n", ".", "s", "h">>,
    <<"b", "i", "n", "/", "t", "o", "o", "l", ".", "E", "X", "E">>,
    <<"M", "a", "k", "e", "f", "i", "l", "e">>,
    <<"n", "o", "t", "e", "s", ".">>,
    <<".", ".", "a">>,
    <<"/", "a", "p", "p", "/", "x", ".", "j", "s">>,
    <<"/", "s", "r", "v", "/", "d", "a", "t", "a", "/", "x", ".", "j", "s">>,
    <<"/", "s", "r", "v", "/", "d", "a", "t", "a", "b", "a", "s", "e", "/", "x", ".", "j", "s">>,
    <<" ", "s", "r", "c", "/", "a", ".", "j", "s", " ">>,
    <<>>,
    <<" ">>,
    <<".", "g", "i", "t", "h", "u", "b", "/", "w", "o", "r", "k", "f", "l", "o", "w", "s", "/", "c", "i", ".", "y", "m", "l">>,
    <<".", "g", "i", "t", "/", "w", "o", "r", "k", "f", "l", "o", "w", "s", "/", "c", "i", ".", "y", "m", "l">>,
    <<"c", "o", "n", "f", "/", ".", "a", "w", "s">>,
    <<"x", ".", "d", "o", "c", "k", "e", "r">>,
    <<"/">>,
    <<"a", "/", ".", "h", "i", "d", "d", "e", "n">>,
    <<"a", ".", "b", "/", "c">> }

MaxPathSegments == 3

PathSegments ==
  { <<".", ".">>,
    <<".">>,
    <<"a">>,
    <<"b", ".", "j", "s">>,
    <<"a", "p", "p", "2">>,
    <<>> }

RECURSIVE JoinWith(_, _)
JoinWith(segs, sep) ==
  IF Len(segs) = 1 THEN Head(segs) ELSE Head(segs) \o <<sep>> \o JoinWith(Tail(segs), sep)

\* Every relative and absolute path of up to MaxPathSegments segments
SegmentPaths ==
  LET lists == SeqsUpTo(PathSegments, MaxPathSegments) \ {<<>>}
  IN {JoinWith(l, SEP) : l \in lists} \cup {<<SEP>> \o JoinWith(l, SEP) : l \in lists}

(***************************************************************************)
(* new URL(url): the scheme and the hostname of the parsed URL              *)
(***************************************************************************)
Letters == Range(LowerChars) \cup Range(UpperChars)

SchemeChars == Letters \cup Range(DigitChars) \cup {"+", "-", "."}

\* The schemes whose URL always has a host, after any number of slashes
SpecialSchemes ==
  { <<"h", "t", "t", "p", "s">>,
    <<"h", "t", "t", "p">>,
    <<"f", "t", "p">>,
    <<"w", "s">>,
    <<"w", "s", "s">> }

\* Code points a domain cannot have
ForbiddenHostChars == {" ", "#", "/", "<", ">", "?", "@", "[", "\\", "]", "^", "|", "%"}

\* The position of the first character of s that is in chars, Len(s) + 1 if there is none
FirstIndex(s, chars) ==
  LET found == {i \in 1..Len(s) : s[i] \in chars}
  IN IF found = {} THEN Len(s) + 1 ELSE Min(found)

\* The position of the last character of s that is in chars, 0 if there is none
LastIndex(s, chars) ==
  LET found == {i \in 1..Len(s) : s[i] \in chars}
  IN IF found = {} THEN 0 ELSE CHOOSE i \in found : \A j \in found : j <= i

From(s, i) == SubSeq(s, i, Len(s))

\* The authority of a URL: after the slashes (a special scheme takes any number
\* of slashes and backslashes), up to the path, the query or the fragment
AuthorityOf(rest, special) ==
  LET ends == IF special THEN {"/", "\\", "?", "#"} ELSE {"/", "?", "#"}
      start == IF special
               THEN Min({i \in 1..(Len(rest) + 1) : i = Len(rest) + 1 \/ rest[i] \notin {"/", "\\"}})
               ELSE 3
      after == From(rest, start)
  IN SubSeq(after, 1, FirstIndex(after, ends) - 1)

\* The host and the port of an authority: what follows the last @, the host up
\* to the first colon outside brackets
HostPort(authority) ==
  LET hostport == From(authority, LastIndex(authority, {"@"}) + 1)
      bracket == hostport # <<>> /\ hostport[1] = "["
      close == FirstIndex(hostport, {"]"})
      colon == FirstIndex(hostport, {":"})
  IN IF bracket
     THEN [host |-> SubSeq(hostport, 1, close), port |-> From(hostport, close + 2),
           valid |-> close <= Len(hostport)
                     /\ (close = Len(hostport) \/ hostport[close + 1] = ":")]
     ELSE [host |-> SubSeq(hostport, 1, colon - 1), port |-> From(hostport, colon + 1),
           valid |-> \A i \in 1..(colon - 1) : hostport[i] \notin ForbiddenHostChars]

\* new URL(input): protocol and hostname, or the TypeError of a string that
\* is not an absolute URL
ParseUrl(input) ==
  LET s == Trim(input)
      colon == FirstIndex(s, {":"})
      scheme == ToLowerCase(SubSeq(s, 1, colon - 1))
      rest == From(s, colon + 1)
      special == scheme \in SpecialSchemes
      hasAuthority == special \/ StartsWith(rest, <<"/", "/">>)
      hp == HostPort(AuthorityOf(rest, special))
  IN IF ~ (/\ colon <= Len(s)
           /\ colon > 1
           /\ s[1] \in Letters
           /\ \A i \in 2..(colon - 1) : s[i] \in SchemeChars)
     THEN MalformedUrl
     ELSE IF ~ hasAuthority THEN Url(scheme \o <<":">>, <<>>)
     ELSE IF ~ hp.valid \/ \E i \in 1..Len(hp.port) : hp.port[i] \notin Range(DigitChars)
     THEN MalformedUrl
     ELSE IF special /\ hp.host = <<>> THEN MalformedUrl
     ELSE Url(scheme \o <<":">>, IF special THEN ToLowerCase(hp.host) ELSE hp.host)

\* URLs of the tests and URLs that put an allowed name where it is not the host
SampleUrlStrings ==
  { <<"h", "t", "t", "p", "s", ":", "/", "/", "r", "e", "g", "i", "s", "t", "r", "y", ".", "n", "p", "m", "j", "s", ".", "o", "r", "g", "/", "p", "a", "c", "k", "a", "g", "e">>,
    <<"h", "t", "t", "p", "s", ":", "/", "/", "a", "p", "i", ".", "g", "i", "t", "h", "u", "b", ".", "c", "o", "m", "/", "r", "e", "p", "o", "s", "/", "u", "s", "e", "r", "/", "r", "e", "p", "o">>,
    <<"h", "t", "t", "p", "s", ":", "/", "/", "r", "a", "w", ".", "g", "i", "t", "h", "u", "b", "u", "s", "e", "r", "c", "o", "n", "t", "e", "n", "t", ".", "c", "o", "m", "/", "u", "s", "e", "r", "/", "r", "e", "p", "o", "/", "m", "a", "i", "n", "/", "f", "i", "l", "e">>,
    <<"h", "t", "t", "p", ":", "/", "/", "r", "e", "g", "i", "s", "t", "r", "y", ".", "n", "p", "m", "j", "s", ".", "o", "r", "g">>,
    <<"f", "t", "p", ":", "/", "/", "e", "v", "i", "l", ".", "c", "o", "m">>,
    <<"f", "i", "l", "e", ":", "/", "/", "/", "e", "t", "c", "/", "p", "a", "s", "s", "w", "d">>,
    <<"j", "a", "v", "a", "s", "c", "r", "i", "p", "t", ":", "a", "l", "e", "r", "t", "(", "1", ")">>,
    <<"d", "a", "t", "a", ":", "t", "e", "x", "t", "/", "h", "t", "m", "l", ",", "<", "s", "c", "r", "i", "p", "t", ">", "a", "l", "e", "r", "t", "(", "1", ")", "<", "/", "s", "c", "r", "i", "p", "t", ">">>,
    <<"h", "t", "t", "p", "s", ":", "/", "/", "m", "a", "l", "i", "c", "i", "o", "u", "s", "-", "s", "i", "t", "e", ".", "o", "r", "g">>,
    <<"h", "t", "t", "p", "s", ":", "/", "/", "f", "a", "k", "e", "-", "n", "p", "m", "-", "r", "e", "g", "i", "s", "t", "r", "y", ".", "c", "o", "m">>,
    <<"H", "T", "T", "P", "S", ":", "/", "/", "R", "E", "G", "I", "S", "T", "R", "Y", ".", "N", "P", "M", "J", "S", ".", "O", "R", "G", "/", "x">>,
    <<"h", "t", "t", "p", "s", ":", "/", "/", "e", "v", "i", "l", ".", "c", "o", "m", "/", "r", "e", "g", "i", "s", "t", "r", "y", ".", "n", "p", "m", "j", "s", ".", "o", "r", "g">>,
    <<"h", "t", "t", "p", "s", ":", "/", "/", "r", "e", "g", "i", "s", "t", "r", "y", ".", "n", "p", "m", "j", "s", ".", "o", "r", "g", ".", "e", "v", "i", "l", ".", "c", "o", "m">>,
    <<"h", "t", "t", "p", "s", ":", "/", "/", "e", "v", "i", "l", ".", "c", "o", "m", "?", "h", "=", "r", "e", "g", "i", "s", "t", "r", "y", ".", "n", "p", "m", "j", "s", ".", "o", "r", "g">>,
    <<"h", "t", "t", "p", "s", ":", "/", "/", "u", "s", "e", "r", ":", "p", "w", "@", "r", "e", "g", "i", "s", "t", "r", "y", ".", "n", "p", "m", "j", "s", ".", "o", "r", "g", ":", "8", "4", "4", "3", "/", "x", "?", "y", "#", "z">>,
    <<"h", "t", "t", "p", "s", ":", "r", "e", "g", "i", "s", "t", "r", "y", ".", "n", "p", "m", "j", "s", ".", "o", "r", "g">>,
    <<"h", "t", "t", "p", "s", ":", "\\", "\\", "a", "p", "i", ".", "g", "i", "t", "h", "u", "b", ".", "c", "o", "m", "\\", "x">>,
    <<"h", "t", "t", "p", "s", ":", "/", "/", "r", "e", "g", "i", "s", "t", "r", "y", ".", "n", "p", "m", "j", "s", ".", "o", "r", "g", ".">>,
    <<"h", "t", "t", "p", "s", ":", "/", "/", "[", ":", ":", "1", "]", "/">>,
    <<"h", "t", "t", "p", "s", ":", "/", "/", "l", "o", "c", "a", "l", "h", "o", "s", "t">>,
    <<"r", "e", "g", "i", "s", "t", "r", "y", ".", "n", "p", "m", "j", "s", ".", "o", "r", "g">>,
    <<>>,
    <<"h", "t", "t", "p", "s", ":", "/", "/">>,
    <<"/", "/", "r", "e", "g", "i", "s", "t", "r", "y", ".", "n", "p", "m", "j", "s", ".", "o", "r", "g">>,
    <<"w", "s", "s", ":", "/", "/", "a", "p", "i", ".", "g", "i", "t", "h", "u", "b", ".", "c", "o", "m">>,
    <<" ", "h", "t", "t", "p", "s", ":", "/", "/", "a", "p", "i", ".", "g", "i", "t", "h", "u", "b", ".", "c", "o", "m", " ">>,
    <<"h", "t", "t", "p", "s", ":", "/", "/", "a", "p", "i", ".", "g", "i", "t", "h", "u", "b", ".", "c", "o", "m", ":", "x">>,
    <<"h", "t", "t", "p", "s", ":", "/", "/", "e", "x", "a", " ", "m", "p", "l", "e", ".", "c", "o", "m">>,
    <<"g", "i", "t", "+", "s", "s", "h", ":", "/", "/", "a", "p", "i", ".", "g", "i", "t", "h", "u", "b", ".", "c", "o", "m", "/", "x">> }

UrlSchemes ==
  { <<"h", "t", "t", "p", "s">>,
    <<"h", "t", "t", "p">>,
    <<"f", "t", "p">> }

UrlUserinfos ==
  { <<>>,
    <<"r", "e", "g", "i", "s", "t", "r", "y", ".", "n", "p", "m", "j", "s", ".", "o", "r", "g", "@">>,
    <<"a", ":", "b", "@">> }

UrlHosts ==
  { <<"r", "e", "g", "i", "s", "t", "r", "y", ".", "n", "p", "m", "j", "s", ".", "o", "r", "g">>,
    <<"a", "p", "i", ".", "g", "i", "t", "h", "u", "b", ".", "c", "o", "m">>,
    <<"r", "a", "w", ".", "g", "i", "t", "h", "u", "b", "u", "s", "e", "r", "c", "o", "n", "t", "e", "n", "t", ".", "c", "o", "m">>,
    <<"e", "v", "i", "l", ".", "c", "o", "m">>,
    <<"1", "2", "7", ".", "0", ".", "0", ".", "1">>,
    <<"1", "0", ".", "0", ".", "0", ".", "1">>,
    <<"1", "7", "2", ".", "1", "6", ".", "0", ".", "1">>,
    <<"1", "7", "2", ".", "3", "2", ".", "0", ".", "1">>,
    <<"1", "9", "2", ".", "1", "6", "8", ".", "1", ".", "1">>,
    <<"1", "6", "9", ".", "2", "5", "4", ".", "1", ".", "1">>,
    <<"[", "f", "e", "8", "0", ":", ":", "1", "]">>,
    <<"[", "f", "c", "0", "0", ":", ":", "1", "]">>,
    <<"A", "P", "I", ".", "G", "i", "t", "H", "u", "b", ".", "c", "o", "m">> }

UrlSuffixes ==
  { <<>>,
    <<"/", "x">>,
    <<":", "8", "4", "4", "3">>,
    <<"#", "a", "p", "i", ".", "g", "i", "t", "h", "u", "b", ".", "c", "o", "m">> }

\* scheme://userinfo host suffix, for every combination
ComposedUrls ==
  {scheme \o <<":", "/", "/">> \o userinfo \o host \o suffix :
     scheme \in UrlSchemes, userinfo \in UrlUserinfos, host \in UrlHosts, suffix \in UrlSuffixes}

(***************************************************************************)
(* Calls of the four sanitizers                                            *)
(***************************************************************************)
NoArgs == [isArray |-> TRUE, items |-> <<>>, single |-> NotAString]

NoCall ==
  [fn |-> "", input |-> NotAString, baseDir |-> <<>>, args |-> NoArgs, url |-> NotAStringUrl,
   outcome |-> Rejected(<<>>)]

NamesInit == lastSanitize = NoCall

\* sanitizePackageName(packageName)
SanitizePackageName ==
  /\ lastSanitize.fn = ""
  /\ \E packageName \in {Str(s) : s \in SampleNames \cup MetaStrings} \cup {NotAString} :
       lastSanitize' = [NoCall EXCEPT !.fn = "sanitizePackageName", !.input = packageName,
                                      !.outcome = sanitizePackageName(packageName)]
  /\ UNCHANGED namesFrame

\* sanitizeCommandArgs(args) with the string as the only argument, as a bare
\* string, and before or after a harmless argument
SanitizeCommandArgs ==
  /\ lastSanitize.fn = ""
  /\ \E s \in MetaStrings \cup {<<"a">>} :
       \E args \in {[isArray |-> TRUE, items |-> <<Str(s)>>, single |-> NotAString],
                    [isArray |-> FALSE, items |-> <<>>, single |-> Str(s)],
                    [isArray |-> FALSE, items |-> <<>>, single |-> NotAString],
                    [isArray |-> TRUE, items |-> <<Str(s), Str(<<"a">>)>>, single |-> NotAString],
                    [isArray |-> TRUE, items |-> <<Str(<<"a">>), Str(s)>>, single |-> NotAString]} :
         LET result == sanitizeCommandArgs(args)
         IN lastSanitize' = [NoCall EXCEPT !.fn = "sanitizeCommandArgs", !.args = args,
                                           !.outcome = IF result.ok THEN Accepted(<<>>)
                                                       ELSE Rejected(result.message)]
  /\ UNCHANGED namesFrame

\* sanitizeFilePath(filePath, baseDir)
SanitizeFilePath ==
  /\ lastSanitize.fn = ""
  /\ \E filePath \in {Str(s) : s \in SamplePaths \cup SegmentPaths} \cup {NotAString} :
       \E baseDir \in SampleBaseDirs :
         lastSanitize' = [NoCall EXCEPT !.fn = "sanitizeFilePath", !.input = filePath,
                                        !.baseDir = baseDir,
                                        !.outcome = sanitizeFilePath(filePath, baseDir, Cwd)]
  /\ UNCHANGED namesFrame

\* validateUrl(url)
ValidateUrl ==
  /\ lastSanitize.fn = ""
  /\ \E url \in {Str(s) : s \in SampleUrlStrings \cup ComposedUrls} \cup {NotAString} :
       LET parsedUrl == IF url.type = "string" THEN ParseUrl(url.val) ELSE NotAStringUrl
           result == validateUrl(parsedUrl)
       IN lastSanitize' = [NoCall EXCEPT !.fn = "validateUrl", !.input = url, !.url = parsedUrl,
                                         !.outcome = IF result.ok THEN Accepted(result.hostname)
                                                     ELSE Rejected(result.error.message)]
  /\ UNCHANGED namesFrame

\* The caller has taken the result; the sanitizers keep nothing between calls
SanitizeReturn ==
  /\ lastSanitize.fn # ""
  /\ lastSanitize' = NoCall
  /\ UNCHANGED namesFrame

NamesNext ==
  \/ SanitizePackageName
  \/ SanitizeCommandArgs
  \/ SanitizeFilePath
  \/ ValidateUrl
  \/ SanitizeReturn

\* C29: whatever sanitizePackageName accepts it returns unchanged, also when
\* the input has whitespace at its ends.
C29_GateNotTransform ==
  (lastSanitize.fn = "sanitizePackageName" /\ lastSanitize.outcome.ok)
    => lastSanitize.outcome.value = lastSanitize.input.val

\* C30: a string with ; | & a backtick or $( anywhere in it is rejected by
\* sanitizePackageName and by sanitizeCommandArgs, and sanitizeCommandArgs
\* rejects a list in which any one argument is such a string.
C30_MetacharactersRejected ==
  /\ (lastSanitize.fn = "sanitizePackageName" /\ HasMetacharacter(lastSanitize.input.val))
       => ~ lastSanitize.outcome.ok
  /\ (lastSanitize.fn = "sanitizeCommandArgs"
      /\ \E i \in 1..Len(ArgsArray(lastSanitize.args)) :
           HasMetacharacter(ArgsArray(lastSanitize.args)[i].val))
       => ~ lastSanitize.outcome.ok
  /\ (lastSanitize.fn = "sanitizeCommandArgs"
      /\ \E i \in 1..Len(ArgsArray(lastSanitize.args)) :
           ~ SanitizeArg(ArgsArray(lastSanitize.args)[i]).ok)
       => ~ lastSanitize.outcome.ok

\* A list whose second argument ends with a backtick was rejected
C30_Witness ==
  /\ lastSanitize.fn = "sanitizeCommandArgs"
  /\ lastSanitize.args.isArray
  /\ Len(lastSanitize.args.items) = 2
  /\ ~ HasMetacharacter(lastSanitize.args.items[1].val)
  /\ lastSanitize.args.items[2].val = <<"a", " ", "backtick">>
  /\ ~ lastSanitize.outcome.ok

\* The directories from the root down to a path, '..' and '.' worked out
DirectoriesOf(p) == Segments(IF IsAbsolute(p) THEN p ELSE Cwd \o <<SEP>> \o p)

\* The path a call of sanitizeFilePath names: filePath taken from baseDir
NamedPath ==
  IF IsAbsolute(Trim(lastSanitize.input.val)) THEN DirectoriesOf(Trim(lastSanitize.input.val))
  ELSE IF lastSanitize.baseDir = <<>> THEN DirectoriesOf(Trim(lastSanitize.input.val))
  ELSE DirectoriesOf(lastSanitize.baseDir \o <<SEP>> \o Trim(lastSanitize.input.val))

\* The named path is baseDir or lies below it
InsideBaseDir ==
  LET base == DirectoriesOf(lastSanitize.baseDir)
  IN Len(NamedPath) >= Len(base) /\ SubSeq(NamedPath, 1, Len(base)) = base

\* C31: what sanitizeFilePath returns is an absolute path that is baseDir or
\* lies below baseDir + separator, and every input that resolves outside
\* baseDir is rejected.
C31_ConfinedToBaseDir ==
  lastSanitize.fn = "sanitizeFilePath" =>
    LET base == PathResolve(<<lastSanitize.baseDir>>, Cwd)
        value == lastSanitize.outcome.value
    IN /\ lastSanitize.outcome.ok =>
            /\ IsAbsolute(value)
            /\ value = base \/ StartsWith(value, base \o <<SEP>>)
            /\ InsideBaseDir
            /\ Segments(value) = NamedPath
       /\ (lastSanitize.input.type = "string" /\ ~ InsideBaseDir) => ~ lastSanitize.outcome.ok

\* A path that leaves a subdirectory again and stays below baseDir was accepted
C31_Witness ==
  /\ lastSanitize.fn = "sanitizeFilePath"
  /\ lastSanitize.input.val = <<"a", "/", ".", ".", "/", "b", ".", "j", "s">>
  /\ lastSanitize.baseDir = <<"/", "s", "r", "v", "/", "d", "a", "t", "a">>
  /\ lastSanitize.outcome.ok
  /\ lastSanitize.outcome.value = <<"/", "s", "r", "v", "/", "d", "a", "t", "a", "/", "b", ".", "j", "s">>

\* The extension of the named path, in lower case
NamedExtension ==
  LET name == NamedPath[Len(NamedPath)]
  IN IF NamedPath = <<>> THEN <<>> ELSE ToLowerCase(PathExtname(name))

\* The call passed the checks that come before the extension
PassedPathChecks ==
  /\ lastSanitize.fn = "sanitizeFilePath"
  /\ lastSanitize.input.type = "string"
  /\ Len(Trim(lastSanitize.input.val)) \in 1..MAX_PATH_LENGTH
  /\ WithinBase(PathResolve(<<lastSanitize.baseDir, Trim(lastSanitize.input.val)>>, Cwd),
                PathResolve(<<lastSanitize.baseDir>>, Cwd))
  /\ ~ forbiddenPatterns(PathResolve(<<lastSanitize.baseDir, Trim(lastSanitize.input.val)>>, Cwd))

\* C32: a path inside baseDir whose extension is not in the allow-list is
\* rejected; one with an allowed extension or with no extension is accepted.
C32_ExtensionAllowList ==
  PassedPathChecks =>
    (lastSanitize.outcome.ok <=> (NamedExtension = <<>> \/ NamedExtension \in allowedExtensions))

\* C33: validateUrl accepts a URL exactly when its scheme is https and its
\* hostname is in the allow-list; every other scheme, every host that is not
\* listed and every private, loopback or link-local address is rejected.
C33_HttpsAndAllowListOnly ==
  lastSanitize.fn = "validateUrl" =>
    /\ lastSanitize.outcome.ok <=>
         /\ lastSanitize.url.parses
         /\ lastSanitize.url.protocol = HTTPS
         /\ lastSanitize.url.hostname \in allowedDomains
    /\ (lastSanitize.url.parses /\ privateIpPatterns(lastSanitize.url.hostname))
         => ~ lastSanitize.outcome.ok
    /\ lastSanitize.outcome.ok => lastSanitize.outcome.value \in allowedDomains

\* An https URL with credentials and a port on an allowed host was accepted
C33_Witness ==
  /\ lastSanitize.fn = "validateUrl"
  /\ lastSanitize.input.val = <<"h", "t", "t", "p", "s", ":", "/", "/", "a", ":", "b", "@", "a", "p", "i", ".", "g", "i", "t", "h", "u", "b", ".", "c", "o", "m", ":", "8", "4", "4", "3">>
  /\ lastSanitize.url.hostname = API_GITHUB
  /\ lastSanitize.outcome.ok

\* The texts that name a rule, with the pattern of the rule's list where the
\* rule has one
RuleMessages ==
  {MsgNameNotString, MsgNameEmpty, MsgNameTooLong, MsgNameFormat,
   MsgPathNotString, MsgPathEmpty, MsgPathTooLong, MsgPathOutside, MsgPathForbidden,
   MsgArgNotString, MsgArgTooLong}
    \cup {MsgNameDangerous \o p : p \in Range(dangerousPatterns)}
    \cup {MsgNameDangerous \o ShellPatternSource(p) : p \in Range(shellPatterns)}
    \cup {MsgNamePrefix \o p : p \in Range(suspiciousPrefixes)}
    \cup {MsgArgDangerous \o p : p \in Range(ArgDangerousPatterns)}
    \cup {validateUrl(u).error.message :
            u \in {NotAStringUrl, MalformedUrl, Url(<<"h", "t", "t", "p", ":">>, <<>>), Url(HTTPS, <<>>)}}

\* C34: the message of every rejection names the rule that was violated and
\* has nothing of the input in it beyond the rule's own pattern.
C34_MessageWithoutPayload ==
  (lastSanitize.fn # "" /\ ~ lastSanitize.outcome.ok) => lastSanitize.outcome.error \in RuleMessages

(***************************************************************************)
(* SecureHttpClient.request: several calls of one client in flight, their   *)
(* rate-limiter slots and their fetch attempts                              *)
(***************************************************************************)
MaxSlotCalls == 3

MaxSlotTime == 4000

\* The clock advances by the shortest backoff delay
SlotTimeStep == HttpBackoff(1)

\* new SecureHttpClient({maxRetries: 2, rateLimiter: new RateLimiter(1, 3000)})
SlotClient == [maxRetries |-> 2, rateLimiter |-> [maxRequests |-> 1, windowMs |-> 3000]]

SlotCallers == {1, 2}

SlotHosts == {REGISTRY, API_GITHUB}

SlotUrls == {Url(HTTPS, host) : host \in SlotHosts \cup {<<"e", "v", "i", "l", ".", "c", "o", "m">>}}

NotInFlight == [pc |-> "idle", host |-> <<>>, admittedAt |-> 0, attempt |-> 0, wakeAt |-> 0]

SlotsInit ==
  /\ slotRequests = [host \in SlotHosts |-> <<>>]
  /\ inFlight = [c \in SlotCallers |-> NotInFlight]
  /\ fetchLog = {}
  /\ slotCalls = 0
  /\ slotNow = 0

\* Line 91: fetch() is called for attempt n of the call of caller c
Fetched(c, host, admittedAt, n) ==
  fetchLog \cup {[host |-> host, at |-> slotNow, caller |-> c, admittedAt |-> admittedAt, n |-> n]}

\* Lines 47-91: validateUrl, the rate limit check and, for a call that is let
\* through, the first attempt up to its fetch()
SlotRequest(c, url) ==
  LET validatedUrl == validateUrl(url)
      checked == isAllowed(slotRequests, SlotClient.rateLimiter, validatedUrl.hostname, slotNow)
  IN /\ inFlight[c].pc = "idle"
     /\ slotCalls < MaxSlotCalls
     /\ slotCalls' = slotCalls + 1
     /\ IF ~ validatedUrl.ok THEN UNCHANGED <<slotRequests, inFlight, fetchLog>>
        ELSE /\ slotRequests' = checked.requests
             /\ IF checked.allowed /\ 1 <= SlotClient.maxRetries
                THEN /\ inFlight' = [inFlight EXCEPT ![c] =
                                       [pc |-> "fetching", host |-> validatedUrl.hostname,
                                        admittedAt |-> slotNow, attempt |-> 1, wakeAt |-> 0]]
                     /\ fetchLog' = Fetched(c, validatedUrl.hostname, slotNow, 1)
                ELSE UNCHANGED <<inFlight, fetchLog>>
     /\ UNCHANGED slotNow

SlotCall ==
  /\ \E c \in SlotCallers, url \in SlotUrls : SlotRequest(c, url)
  /\ UNCHANGED slotsFrame

\* Lines 100-117 and 120-129: the attempt ends with a response that is returned
\* or with an error that is not retried; request() returns or throws
SlotAttemptEnds ==
  /\ \E c \in SlotCallers :
       /\ inFlight[c].pc = "fetching"
       /\ inFlight' = [inFlight EXCEPT ![c] = NotInFlight]
  /\ UNCHANGED <<slotRequests, fetchLog, slotCalls, slotNow>>
  /\ UNCHANGED slotsFrame

\* Lines 118-136: the attempt fails with an error that is retried; the backoff
\* timer is started, or, after the last attempt, lastError is thrown
SlotAttemptFails ==
  /\ \E c \in SlotCallers :
       /\ inFlight[c].pc = "fetching"
       /\ inFlight' = [inFlight EXCEPT ![c] =
                         IF inFlight[c].attempt < SlotClient.maxRetries
                         THEN [inFlight[c] EXCEPT !.pc = "backoff",
                                                  !.wakeAt = slotNow + HttpBackoff(inFlight[c].attempt)]
                         ELSE NotInFlight]
  /\ UNCHANGED <<slotRequests, fetchLog, slotCalls, slotNow>>
  /\ UNCHANGED slotsFrame

\* Line 134 and the next iteration: the backoff timer fires and the next
\* attempt calls fetch()
SlotWake ==
  /\ \E c \in SlotCallers :
       /\ inFlight[c].pc = "backoff"
       /\ inFlight[c].wakeAt <= slotNow
       /\ inFlight' = [inFlight EXCEPT ![c].pc = "fetching", ![c].attempt = inFlight[c].attempt + 1]
       /\ fetchLog' = Fetched(c, inFlight[c].host, inFlight[c].admittedAt, inFlight[c].attempt + 1)
  /\ UNCHANGED <<slotRequests, slotCalls, slotNow>>
  /\ UNCHANGED slotsFrame

\* Time passes; a timer that is due fires first
SlotTick ==
  /\ slotNow + SlotTimeStep <= MaxSlotTime
  /\ \A c \in SlotCallers : inFlight[c].pc = "backoff" => inFlight[c].wakeAt > slotNow
  /\ slotNow' = slotNow + SlotTimeStep
  /\ UNCHANGED <<slotRequests, inFlight, fetchLog, slotCalls>>
  /\ UNCHANGED slotsFrame

SlotsNext ==
  \/ SlotCall
  \/ SlotAttemptEnds
  \/ SlotAttemptFails
  \/ SlotWake
  \/ SlotTick

\* The calls let through for a hostname at a time: each has one first attempt
AdmittedAt(host, time) ==
  {e \in fetchLog : e.host = host /\ e.n = 1 /\ e.admittedAt = time}

\* The window of the rate limiter that ends at a time
InWindow(time, end) == time > end - SlotClient.rateLimiter.windowMs /\ time <= end

SlotTimes == {e.at : e \in fetchLog} \cup {slotNow}

AttemptsCap == SlotClient.rateLimiter.maxRequests * SlotClient.maxRetries

\* Every call holds one slot, taken when it was let through: as long as the
\* window of a slot lasts, the limiter has one timestamp for each call it let
\* through, whether the call is retrying, has returned or has failed
OneSlotPerCall ==
  \A host \in SlotHosts : \A time \in SlotTimes :
    InWindow(time, slotNow) =>
      Len(SelectSeq(slotRequests[host], LAMBDA ts : ts = time))
        = Cardinality(AdmittedAt(host, time))

\* No call makes more than maxRetries attempts, none before it has its slot
AttemptsPerCall ==
  \A e \in fetchLog : e.n \in 1..SlotClient.maxRetries /\ e.at >= e.admittedAt

\* C38 (as claimed): each request() call takes one slot for its hostname
\* before its first attempt, retries take none and a failed call keeps its
\* slot, and the fetch attempts sent to one hostname within a window are at
\* most maxRequests * maxRetries.
C38_AttemptsPerWindow ==
  /\ OneSlotPerCall
  /\ AttemptsPerCall
  /\ \A host \in SlotHosts : \A end \in SlotTimes :
       Cardinality({e \in fetchLog : e.host = host /\ InWindow(e.at, end)}) <= AttemptsCap

\* C38 (amended): each request() call that is let through takes one slot for
\* its hostname before its first attempt, retries take none and a failed call
\* keeps its slot; the calls let through within a window make at most
\* maxRequests * maxRetries fetch attempts, which can be sent after the window.
C38_AttemptsPerAdmittedCall ==
  /\ OneSlotPerCall
  /\ AttemptsPerCall
  /\ \A host \in SlotHosts : \A end \in SlotTimes :
       Cardinality({e \in fetchLog : e.host = host /\ InWindow(e.admittedAt, end)}) <= AttemptsCap

\* A call that retried has failed for good and its slot is still taken
C38_Witness ==
  \E e \in fetchLog :
    /\ e.n = 2
    /\ inFlight[e.caller].pc = "idle"
    /\ slotRequests[e.host] = <<e.admittedAt>>
    /\ slotNow > e.at

(***************************************************************************)
(* Specifications: one per component, the other components at rest         *)
(***************************************************************************)
Init == ExecInit /\ RetryInit /\ BatchInit /\ HttpInit /\ HeadersInit /\ LimiterInit
        /\ CryptoInit
        /\ ConfigInit
        /\ IntegrityInit
        /\ PkgInit
        /\ NamesInit
        /\ SlotsInit

SpecExec == Init /\ [][ExecNext]_vars

\* Timers fire when they are due, emitted events reach their handlers and
\* time passes; whether the process exits or writes by itself is up to it
SpecExecFair ==
  /\ SpecExec
  /\ WF_vars(OnTimeout) /\ WF_vars(OnKillTimer) /\ WF_vars(OnClose) /\ WF_vars(OnError)
  /\ WF_vars(ExecTick)

SpecRetry == Init /\ [][RetryNext]_vars

SpecBatch == Init /\ [][BatchNext]_vars

SpecHttp == Init /\ [][HttpNext]_vars

SpecHeaders == Init /\ [][HeadersNext]_vars

SpecLimiter == Init /\ [][LimiterNext]_vars

SpecCrypto == Init /\ [][CryptoNext]_vars

SpecConfig == Init /\ [][ConfigNext]_vars

SpecIntegrity == Init /\ [][IntegrityNext]_vars

SpecPkg == Init /\ [][PkgNext]_vars

SpecNames == Init /\ [][NamesNext]_vars

SpecSlots == Init /\ [][SlotsNext]_vars

====
